---------------------------- MODULE Spec2Model ----------------------------
(***************************************************************************)
(* A model of the NexusEnroll services of src/main.py: the singleton       *)
(* EventBus with its dispatcher thread, the validation pipeline, the grade *)
(* strategies, and the Student and Faculty services that use them.         *)
(*                                                                         *)
(* A request handler is one action (requests run one at a time); the       *)
(* dispatcher thread takes one step per queue.get and one per callback, so *)
(* requests interleave with the delivery of events. The specifications for *)
(* overlapping request threads split a handler into its reads, its update  *)
(* and its publish.                                                        *)
(***************************************************************************)
EXTENDS Integers, Sequences, FiniteSets, TLC

VARIABLES
    student_courses,   \* StudentService.courses: course_id -> Course
    student_data,      \* StudentService.student_data: student_id -> record
    applied,           \* history: the enrollments and drops the Student service
                       \* has applied to its state, in the order applied
    rosters,           \* FacultyService.rosters: course_id -> list of student ids
    grades,            \* FacultyService.grades: course_id -> (student_id -> grade)
    subscribers,       \* EventBus.subscribers: event_type -> list of callbacks
    event_queue,       \* EventBus.event_queue (queue.Queue, FIFO)
    dispatcher,        \* the process_events thread: [pc, event, idx]
    published,         \* history: every event published so far, in publish order
                       \* (an event's id is its rank in it)
    dlog,              \* history: every callback invocation, in order
    last,              \* the last request handled and its HTTP response
    strategies,        \* ValidationContext.strategies of the pipeline under test
    validation_out,    \* the last validate_all call on it and what it returned
    admin_courses,     \* AdminService.courses: course_id -> Course
    processing_out,    \* the last GradeProcessor.process call and what it returned
    now,               \* the clock datetime.now() reads
    dto_calls,         \* history: every create_response_dto call and its payload
    producers,         \* request threads inside a handler: thread -> [pc, ...]
    bus,               \* EventBus._instance, EventBus._lock and what was created
    ctor               \* threads inside EventBus(): thread -> [pc, rets]

vars == <<student_courses, student_data, applied, rosters, grades, subscribers,
          event_queue, dispatcher, published, dlog, last, strategies,
          validation_out, admin_courses, processing_out, now, dto_calls, producers,
          bus, ctor>>

busVars == <<subscribers, event_queue, dispatcher, published, dlog>>
studentVars == <<student_courses, student_data, applied>>
facultyVars == <<rosters, grades>>
pipelineVars == <<strategies, validation_out>>
adminVars == <<admin_courses>>
gradingVars == <<processing_out>>
dtoVars == <<now, dto_calls>>
singletonVars == <<bus, ctor>>
\* What the requests of the services and the dispatcher leave alone.
restVars == <<adminVars, gradingVars, dtoVars, producers, singletonVars>>

----------------------------------------------------------------------------
(* Bounds of the model *)

\* Events published in a run of the whole system.
MaxEvents == 3
\* Events published in a run of the Student service alone.
MaxStudentEvents == 6
\* Events published in a run of the grade submissions alone.
MaxGradeEvents == 2
\* Entries in one grade batch.
MaxBatch == 2
\* Validators added to one ValidationContext.
MaxStrategies == 3
\* Request threads that run at the same time.
MaxThreads == 2
\* Threads that call EventBus().
MaxCtors == 3
\* Events published in a run of the concurrent publishers.
MaxPublishes == 3
\* EventBus() calls of one thread.
MaxCalls == 2
\* Events published in a run of the four mutation endpoints.
MaxRequestEvents == 2
\* Ticks of the clock; create_response_dto calls in a run of the factories.
MaxClock == 2
MaxDtoCalls == 2

\* Requests to the Student service that reach their update, when the requests
\* overlap.
MaxRaceEvents == 6

\* Enrollment and drop events beside the readers of a roster.
MaxRosterEvents == 2

\* Enrollments and drops begun, when update and publish are separate steps.
MaxOrderEvents == 2

\* Enrollment and drop events put on the bus directly.
MaxFedEvents == 3

----------------------------------------------------------------------------
(* Values *)

\* A JSON value that is not a string (absent, null, a number): isinstance(v, str) fails.
NotAString == "<not-a-str>"
IsStr(v) == v # NotAString

\* dict.get of an absent key / an absent key.
None == "<None>"

\* context.get("course") when the context holds no course.
NoCourse == [none |-> TRUE]

Course(course_id, name, instructor, capacity, enrolled, prerequisites) ==
    [course_id |-> course_id, name |-> name, instructor |-> instructor,
     capacity |-> capacity, enrolled |-> enrolled, prerequisites |-> prerequisites]

Event(id, event_type, data) == [id |-> id, event_type |-> event_type, data |-> data]

NoEvent == [none |-> TRUE]

\* The ids requests to the Student service are drawn from: a student with a
\* record and one without; the three courses of the service.
StudentIds == {"STU001", "STU004"}
CourseIds == {"CS101", "CS201", "CS301"}
\* The ids of the requests that run beside the dispatcher.
BusStudentIds == {"STU001", "STU004"}
BusCourseIds == {"CS101", "CS201"}

SeqToSet(s) == {s[i] : i \in 1..Len(s)}

\* list.remove(x): the first occurrence of x is removed.
RECURSIVE Remove(_, _)
Remove(list, x) ==
    IF list = <<>> THEN <<>>
    ELSE IF Head(list) = x THEN Tail(list)
    ELSE <<Head(list)>> \o Remove(Tail(list), x)

\* sep.join(items), as the sequence of its pieces.
RECURSIVE Join(_, _)
Join(items, sep) ==
    IF items = <<>> THEN <<>>
    ELSE IF Len(items) = 1 THEN <<items[1]>>
    ELSE <<items[1], sep>> \o Join(Tail(items), sep)

----------------------------------------------------------------------------
(* EventBus *)

SubscribeAtFront(subs, event_type, callback) ==
    IF event_type \notin DOMAIN subs
    THEN subs @@ (event_type :> <<callback>>)
    ELSE [subs EXCEPT ![event_type] = <<callback>> \o @]

\* EventBus.subscribe
Subscribe(subs, event_type, callback) ==
    IF event_type \notin DOMAIN subs
    THEN subs @@ (event_type :> <<callback>>)
    ELSE [subs EXCEPT ![event_type] = Append(@, callback)]

\* NotificationService._setup_event_subscriptions
NotificationSubscriptions(subs) ==
    LET s1 == Subscribe(subs, "student_enrolled", "notify_enrollment")
        s2 == Subscribe(s1, "student_dropped", "notify_drop")
        s3 == Subscribe(s2, "grade_submitted", "notify_grade")
        s4 == Subscribe(s3, "course_created", "notify_course_created")
    IN Subscribe(s4, "system_config_updated", "notify_system_config")

\* FacultyService.__init__: the two roster subscriptions
FacultySubscriptions(subs) ==
    LET s1 == Subscribe(subs, "student_enrolled", "faculty_on_student_enrolled")
    IN Subscribe(s1, "student_dropped", "faculty_on_student_dropped")

\* EventBus.publish: queue.put on an unbounded queue
Publish(queue, event) == Append(queue, event)

\* A service builds Event(event_type, data) and publishes it.
Emit(event_type, data) ==
    LET event == Event(Len(published) + 1, event_type, data)
    IN /\ event_queue' = Publish(event_queue, event)
       /\ published' = Append(published, event)

QueueGetLifo(queue) ==
    [event |-> queue[Len(queue)], rest |-> SubSeq(queue, 1, Len(queue) - 1)]

QueueGetKeep(queue) == [event |-> Head(queue), rest |-> queue]

\* queue.get: the event taken and the queue left
QueueGet(queue) == [event |-> Head(queue), rest |-> Tail(queue)]

----------------------------------------------------------------------------
(* Response factories: StudentDTOFactory, FacultyDTOFactory, AdminDTOFactory *)

\* Course.__init__: self.schedule, the same for every course
DefaultSchedule ==
    [days |-> <<"Mon", "Wed">>, time |-> "10:00-11:30", location |-> "Room 101"]

\* The entities handed to create_response_dto, by what isinstance tells of them.
CourseEntity(course) == [kind |-> "course", course |-> course]
ListEntity(items) == [kind |-> "list", items |-> items]
RosterEntity(course_id, students) ==
    [kind |-> "dict", keys |-> {"course_id", "students"}, course_id |-> course_id,
     students |-> students]
ReportEntity(report_type, data, summary) ==
    [kind |-> "dict", keys |-> {"report_type", "data", "summary"},
     report_type |-> report_type, data |-> data, summary |-> summary]
OtherEntity == [kind |-> "other"]

Unsupported == [error |-> "Unsupported data type"]

\* round((enrolled / capacity) * 100, 2), in hundredths of a percent; the
\* division raises ZeroDivisionError when capacity is 0.
DivisionRaises(course) == course.capacity = 0
Percent(course) ==
    (2 * 10000 * course.enrolled + course.capacity) \div (2 * course.capacity)

StudentCourseDto(course) ==
    [course_id |-> course.course_id, name |-> course.name,
     instructor |-> course.instructor,
     available_seats |-> course.capacity - course.enrolled,
     schedule |-> DefaultSchedule, prerequisites |-> course.prerequisites,
     can_enroll |-> TRUE]

\* StudentDTOFactory.create_response_dto; a list is a list of courses
StudentDto(data) ==
    IF data.kind = "course" THEN StudentCourseDto(data.course)
    ELSE IF data.kind = "list"
    THEN [courses |-> [i \in 1..Len(data.items) |-> StudentCourseDto(data.items[i])]]
    ELSE Unsupported

\* FacultyDTOFactory.create_response_dto
FacultyDto(data) ==
    IF data.kind = "course"
    THEN [course_id |-> data.course.course_id, name |-> data.course.name,
          enrollment_count |-> data.course.enrolled, capacity |-> data.course.capacity,
          enrollment_percentage |-> Percent(data.course)]
    ELSE IF data.kind = "dict" /\ "students" \in data.keys
    THEN [course_id |-> data.course_id, students |-> data.students,
          total_enrolled |-> Len(data.students)]
    ELSE Unsupported

\* datetime.isoformat() of a clock reading: a text that tells the readings apart
IsoFormat(clock) == "T" \o ToString(clock)

\* AdminDTOFactory.create_response_dto; clock is what datetime.now() reads
AdminDto(data, clock) ==
    IF data.kind = "course"
    THEN [course_id |-> data.course.course_id, name |-> data.course.name,
          instructor |-> data.course.instructor, capacity |-> data.course.capacity,
          enrolled |-> data.course.enrolled, utilization_rate |-> Percent(data.course),
          schedule |-> DefaultSchedule, prerequisites |-> data.course.prerequisites,
          status |-> "active"]
    ELSE IF data.kind = "dict" /\ "report_type" \in data.keys
    THEN [report_type |-> data.report_type, generated_at |-> IsoFormat(clock),
          data |-> data.data, summary |-> data.summary]
    ELSE Unsupported

\* create_response_dto of a role's factory
CreateResponseDto(role, data, clock) ==
    CASE role = "student" -> StudentDto(data)
      [] role = "faculty" -> FacultyDto(data)
      [] role = "admin" -> AdminDto(data, clock)

\* Does the call raise? (the percentage of a course without capacity)
DtoRaises(role, data) ==
    /\ role \in {"faculty", "admin"}
    /\ data.kind = "course"
    /\ DivisionRaises(data.course)

----------------------------------------------------------------------------
(* Validation pipeline *)

Result(valid, message) == [valid |-> valid, message |-> message]

Context(course, completed, current) ==
    [course |-> course, student_completed_courses |-> completed,
     student_current_courses |-> current]

MissingPrereqsUnfiltered(course, completed) == course.prerequisites

\* The missing_prereqs list comprehension: the prerequisites, in the course's
\* order, that are not in the completed courses.
MissingPrereqs(course, completed) ==
    SelectSeq(course.prerequisites, LAMBDA prereq : prereq \notin SeqToSet(completed))

\* PrerequisiteValidationStrategy.validate
PrerequisiteValidate(student_id, course_id, context) ==
    LET course == context.course
        completed == context.student_completed_courses
    IN IF course = NoCourse \/ course.prerequisites = <<>>
       THEN Result(TRUE, <<"No prerequisites required">>)
       ELSE LET missing_prereqs == MissingPrereqs(course, completed)
            IN IF missing_prereqs # <<>>
               THEN Result(FALSE, <<"Missing prerequisites: ">> \o Join(missing_prereqs, ", "))
               ELSE Result(TRUE, <<"Prerequisites satisfied">>)

CapacityValidateOffByOne(student_id, course_id, context) ==
    LET course == context.course
    IN IF course = NoCourse THEN Result(FALSE, <<"Course not found">>)
       ELSE IF course.enrolled > course.capacity
       THEN Result(FALSE, <<"Course is at full capacity">>)
       ELSE Result(TRUE, <<"Capacity available">>)

\* CapacityValidationStrategy.validate
CapacityValidate(student_id, course_id, context) ==
    LET course == context.course
    IN IF course = NoCourse THEN Result(FALSE, <<"Course not found">>)
       ELSE IF course.enrolled >= course.capacity
       THEN Result(FALSE, <<"Course is at full capacity">>)
       ELSE Result(TRUE, <<"Capacity available">>)

ScheduleConflictValidateAboveFive(student_id, course_id, context) ==
    LET student_schedule == context.student_current_courses
        course == context.course
    IN IF course = NoCourse THEN Result(FALSE, <<"Course not found">>)
       ELSE IF Len(student_schedule) > 5
       THEN Result(FALSE, <<"Schedule conflict: Maximum 5 courses allowed">>)
       ELSE Result(TRUE, <<"No schedule conflicts">>)

\* ScheduleConflictValidationStrategy.validate
ScheduleConflictValidate(student_id, course_id, context) ==
    LET student_schedule == context.student_current_courses
        course == context.course
    IN IF course = NoCourse THEN Result(FALSE, <<"Course not found">>)
       ELSE IF Len(student_schedule) >= 5
       THEN Result(FALSE, <<"Schedule conflict: Maximum 5 courses allowed">>)
       ELSE Result(TRUE, <<"No schedule conflicts">>)

Strategies == {"Prerequisite", "Capacity", "ScheduleConflict"}

\* strategy.validate(...), dispatched on the strategy's class
Validate(strategy, student_id, course_id, context) ==
    CASE strategy = "Prerequisite" -> PrerequisiteValidate(student_id, course_id, context)
      [] strategy = "Capacity" -> CapacityValidate(student_id, course_id, context)
      [] strategy = "ScheduleConflict" -> ScheduleConflictValidate(student_id, course_id, context)

\* ValidationContext.add_strategy
AddStrategy(list, strategy) == Append(list, strategy)

\* The loop of validate_all from its i-th strategy on, results being those so far.
RECURSIVE ValidateFrom(_, _, _, _, _, _)
ValidateFrom(list, i, results, student_id, course_id, context) ==
    IF i > Len(list) THEN results
    ELSE LET result == Validate(list[i], student_id, course_id, context)
             results2 == Append(results, result)
         IN IF ~result.valid
            THEN results2
            ELSE ValidateFrom(list, i + 1, results2, student_id, course_id, context)

ValidateAllNoBreak(list, student_id, course_id, context) ==
    [i \in 1..Len(list) |-> Validate(list[i], student_id, course_id, context)]

\* ValidationContext.validate_all
ValidateAll(list, student_id, course_id, context) ==
    ValidateFrom(list, 1, <<>>, student_id, course_id, context)

AllValidAlways(results) == TRUE

\* all(result["valid"] for result in validation_results)
AllValid(results) == \A i \in 1..Len(results) : results[i].valid

\* next(result for result in validation_results if not result["valid"])
FirstInvalid(results) ==
    results[CHOOSE i \in 1..Len(results) :
                ~results[i].valid /\ \A j \in 1..(i - 1) : results[j].valid]

----------------------------------------------------------------------------
(* Grade strategies *)

\* LetterGradeStrategy.VALID
LetterValid == {"A", "A-", "B+", "B", "B-", "C+", "C", "C-", "D", "F"}
\* PassFailGradeStrategy.VALID
PassFailValid == {"P", "F"}

\* A grade entry of the JSON batch; a key that is absent holds None.
GradeEntry(student_id, grade) == [student_id |-> student_id, grade |-> grade]

InvalidEntriesFirstOnly(grades_data, valid_set) ==
    IF grades_data = <<>> THEN <<>>
    ELSE SelectSeq(<<Head(grades_data)>>, LAMBDA g : g.grade \notin valid_set)

\* g.get("grade") not in VALID, for each entry, in batch order
InvalidEntries(grades_data, valid_set) ==
    SelectSeq(grades_data, LAMBDA g : g.grade \notin valid_set)

\* LetterGradeStrategy.process
LetterProcess(grades_data) ==
    LET invalid == InvalidEntries(grades_data, LetterValid)
    IN [scheme |-> "letter", valid |-> Len(invalid) = 0, invalid_entries |-> invalid]

\* PassFailGradeStrategy.process
PassFailProcess(grades_data) ==
    LET invalid == InvalidEntries(grades_data, PassFailValid)
    IN [scheme |-> "pass_fail", valid |-> Len(invalid) = 0, invalid_entries |-> invalid]

\* What follows the first two characters in the course ids of the model.
IdRests == {"", "100", "101", "F1"}

\* course_id.startswith("PF"): the id is "PF" followed by anything
StartsWithPF(course_id) == \E rest \in IdRests : course_id = "PF" \o rest

SelectSchemeLetterOnly(course_id) == "letter"

\* The strategy submit_grades selects for a course id.
SelectScheme(course_id) == IF StartsWithPF(course_id) THEN "pass_fail" ELSE "letter"

\* GradeProcessor.process with the selected strategy
Process(scheme, grades_data) ==
    IF scheme = "pass_fail" THEN PassFailProcess(grades_data) ELSE LetterProcess(grades_data)

\* The course ids and batches the grade schemes are run on, on their own.
SchemeCourseIds == {"PF100", "PF", "CS101", "APF1", "pf100"}
SchemeEntries ==
    {GradeEntry("STU001", g) : g \in {"A", "C-", "P", "F", "Z", None}}

\* The sequences over S of length n, and of length up to n.
RECURSIVE SeqsOfLen(_, _)
SeqsOfLen(S, n) ==
    IF n = 0 THEN {<<>>}
    ELSE {Append(b, e) : b \in SeqsOfLen(S, n - 1), e \in S}
Batches(S, n) == UNION {SeqsOfLen(S, k) : k \in 0..n}

\* strategy selection and processor.process(grades_data) of submit_grades
ProcessBatch ==
    /\ \E course_id \in SchemeCourseIds, grades_data \in Batches(SchemeEntries, MaxBatch) :
          processing_out' =
              [called |-> TRUE, course_id |-> course_id, grades_data |-> grades_data,
               result |-> Process(SelectScheme(course_id), grades_data)]
    /\ UNCHANGED <<student_courses, student_data, applied, rosters, grades, subscribers,
                   event_queue, dispatcher, published, dlog, last, strategies,
                   validation_out, admin_courses, now, dto_calls, producers, bus, ctor>>

----------------------------------------------------------------------------
(* State after construction: NotificationService(), StudentService(),       *)
(* FacultyService(), in the order of __main__ and of the tests' setup.      *)

EmptyMap == [x \in {} |-> x]

\* StudentService.__init__: self.courses
StudentSeedCourses ==
    ("CS101" :> Course("CS101", "Intro to Programming", "Dr. Smith", 30, 25, <<>>)) @@
    ("CS201" :> Course("CS201", "Data Structures", "Dr. Johnson", 25, 20, <<"CS101">>)) @@
    ("CS301" :> Course("CS301", "Algorithms", "Dr. Brown", 20, 15, <<"CS101", "CS201">>))

StudentRecord(completed, current, history) ==
    [completed_courses |-> completed, current_courses |-> current,
     enrollment_history |-> history]

\* StudentService.__init__: self.student_data
StudentSeedData ==
    "STU001" :> StudentRecord(<<"CS101">>, <<"CS201">>, <<>>)

FacultyCoursesWithCS301 == {"CS101", "CS201", "CS301"}

\* FacultyService.__init__: the ids of self.courses
FacultyCourses == {"CS101", "CS201"}

\* FacultyService.__init__: self.rosters
FacultySeedRosters ==
    ("CS101" :> <<"STU001", "STU002", "STU003">>) @@
    ("CS201" :> <<"STU001", "STU004", "STU005">>)

\* AdminService.__init__: self.courses
AdminSeedCourses ==
    ("CS101" :> Course("CS101", "Intro to Programming", "Dr. Smith", 30, 25, <<>>)) @@
    ("CS201" :> Course("CS201", "Data Structures", "Dr. Johnson", 25, 20, <<>>)) @@
    ("CS301" :> Course("CS301", "Algorithms", "Dr. Brown", 20, 15, <<>>))

Threads == 1..MaxThreads
CtorThreads == 1..MaxCtors

\* A request thread outside a request.
IdleProducer == [pc |-> "idle"]

\* A thread outside EventBus(); rets is what its calls returned so far.
IdleCtor == [pc |-> "idle", rets |-> <<>>]

\* The class attributes of EventBus once the services are constructed:
\* _instance is instance 1, _lock is free (0: no holder); one instance was
\* created and one dispatcher thread started.
ConstructedBus == [instance |-> 1, lock |-> 0, created |-> 1, started |-> 1]

NoProcessing == [called |-> FALSE]

NoRequest == [op |-> "none"]

Response(op, request, status, body) ==
    [op |-> op, request |-> request, status |-> status, body |-> body]

NoValidation == [called |-> FALSE]

Init ==
    /\ student_courses = StudentSeedCourses
    /\ student_data = StudentSeedData
    /\ applied = <<>>
    /\ rosters = FacultySeedRosters
    /\ grades = EmptyMap
    /\ subscribers = FacultySubscriptions(NotificationSubscriptions(EmptyMap))
    /\ event_queue = <<>>
    /\ dispatcher = [pc |-> "get", event |-> NoEvent, idx |-> 0]
    /\ published = <<>>
    /\ dlog = <<>>
    /\ last = NoRequest
    /\ strategies = <<>>
    /\ validation_out = NoValidation
    /\ admin_courses = AdminSeedCourses
    /\ processing_out = NoProcessing
    /\ now = 0
    /\ dto_calls = <<>>
    /\ producers = [t \in Threads |-> IdleProducer]
    /\ bus = ConstructedBus
    /\ ctor = [t \in CtorThreads |-> IdleCtor]

----------------------------------------------------------------------------
(* Student service *)

\* self.student_data.get(student_id, {}).get(field, [])
StudentField(data, student_id, field) ==
    IF student_id \in DOMAIN data THEN data[student_id][field] ELSE <<>>

EnrollStrategiesNoPrerequisite(course) ==
    AddStrategy(AddStrategy(<<>>, "Capacity"), "ScheduleConflict")

\* The ValidationContext enroll_student assembles for a course.
EnrollStrategies(course) ==
    LET v0 == <<>>
        v1 == IF course.prerequisites # <<>> THEN AddStrategy(v0, "Prerequisite") ELSE v0
        v2 == AddStrategy(v1, "Capacity")
    IN AddStrategy(v2, "ScheduleConflict")

\* The context enroll_student validates against.
EnrollContext(course, student_id) ==
    Context(course,
            StudentField(student_data, student_id, "completed_courses"),
            StudentField(student_data, student_id, "current_courses"))

\* The student record after a successful enrollment (created on first use).
EnrollRecord(data, student_id, course_id) ==
    LET sd == IF student_id \in DOMAIN data THEN data
              ELSE data @@ (student_id :> StudentRecord(<<>>, <<>>, <<>>))
    IN [sd EXCEPT ![student_id].current_courses = Append(@, course_id),
                  ![student_id].enrollment_history =
                      Append(@, [course_id |-> course_id, action |-> "enrolled"])]

\* An entry of the history of applied updates.
Applied(op, student_id, course_id) ==
    [op |-> op, student_id |-> student_id, course_id |-> course_id]

\* POST /enroll
Enroll(student_id, course_id) ==
    LET request == [student_id |-> student_id, course_id |-> course_id]
    IN IF ~IsStr(student_id) \/ ~IsStr(course_id)
       THEN /\ last' = Response("enroll", request, 400, [error |-> "Invalid payload"])
            /\ UNCHANGED <<studentVars, event_queue, published>>
       ELSE IF course_id \notin DOMAIN student_courses
       THEN /\ last' = Response("enroll", request, 404, [error |-> "Course not found"])
            /\ UNCHANGED <<studentVars, event_queue, published>>
       ELSE LET course == student_courses[course_id]
                validation_results ==
                    ValidateAll(EnrollStrategies(course), student_id, course_id,
                                EnrollContext(course, student_id))
            IN IF ~AllValid(validation_results)
               THEN /\ last' = Response("enroll", request, 400,
                                 [success |-> FALSE,
                                  message |-> FirstInvalid(validation_results).message,
                                  validation_results |-> validation_results])
                    /\ UNCHANGED <<studentVars, event_queue, published>>
               ELSE /\ student_courses' =
                           [student_courses EXCEPT ![course_id].enrolled = @ + 1]
                    /\ student_data' = EnrollRecord(student_data, student_id, course_id)
                    /\ applied' = Append(applied, Applied("enroll", student_id, course_id))
                    /\ Emit("student_enrolled",
                            [student_id |-> student_id, course_id |-> course_id,
                             advisor_email |->
                                 "advisor_" \o student_id \o "@university.edu"])
                    /\ last' = Response("enroll", request, 200,
                                 [success |-> TRUE,
                                  message |-> <<"Successfully enrolled in " \o course.name>>,
                                  validation_results |-> validation_results])

HoldsCourseAnyRecord(data, student_id, course_id) == student_id \in DOMAIN data

\* student_id in self.student_data and
\* course_id in self.student_data[student_id]["current_courses"]
HoldsCourse(data, student_id, course_id) ==
    /\ student_id \in DOMAIN data
    /\ course_id \in SeqToSet(data[student_id].current_courses)

\* POST /drop
Drop(student_id, course_id) ==
    LET request == [student_id |-> student_id, course_id |-> course_id]
    IN IF ~IsStr(student_id) \/ ~IsStr(course_id)
       THEN /\ last' = Response("drop", request, 400, [error |-> "Invalid payload"])
            /\ UNCHANGED <<studentVars, event_queue, published>>
       ELSE IF course_id \notin DOMAIN student_courses
       THEN /\ last' = Response("drop", request, 404, [error |-> "Course not found"])
            /\ UNCHANGED <<studentVars, event_queue, published>>
       ELSE IF HoldsCourse(student_data, student_id, course_id)
       THEN /\ student_courses' =
                   [student_courses EXCEPT ![course_id].enrolled = @ - 1]
            /\ student_data' =
                   [student_data EXCEPT ![student_id].current_courses =
                                            Remove(@, course_id)]
            /\ applied' = Append(applied, Applied("drop", student_id, course_id))
            /\ Emit("student_dropped",
                    [student_id |-> student_id, course_id |-> course_id])
            /\ last' = Response("drop", request, 200,
                         [success |-> TRUE,
                          message |-> <<"Successfully dropped " \o
                                        student_courses[course_id].name>>])
       ELSE /\ last' = Response("drop", request, 400,
                         [error |-> "Student not enrolled in this course"])
            /\ UNCHANGED <<studentVars, event_queue, published>>

\* A request to the Student service: the handler runs to completion. The model
\* takes requests, with ids from the given sets, as long as no more than limit
\* events get published.
EnrollRequest(limit, student_ids, course_ids) ==
    \E student_id \in student_ids :
       \E course_id \in course_ids :
          /\ Enroll(student_id, course_id)
          /\ Len(published') <= limit
          /\ UNCHANGED <<facultyVars, subscribers, dispatcher, dlog, pipelineVars, restVars>>

DropRequest(limit, student_ids, course_ids) ==
    \E student_id \in student_ids :
       \E course_id \in course_ids :
          /\ Drop(student_id, course_id)
          /\ Len(published') <= limit
          /\ UNCHANGED <<facultyVars, subscribers, dispatcher, dlog, pipelineVars, restVars>>

----------------------------------------------------------------------------
(* Faculty service *)

\* self.grades[course_id][student_id] = grade
StoreGrade(g, course_id, student_id, grade) ==
    [g EXCEPT ![course_id] =
        IF student_id \in DOMAIN g[course_id]
        THEN [g[course_id] EXCEPT ![student_id] = grade]
        ELSE g[course_id] @@ (student_id :> grade)]

\* The store loop of submit_grades from its i-th entry on. grade_entry['student_id']
\* and grade_entry['grade'] raise KeyError on an absent key: the loop ends there
\* and what it stored and published before stays.
RECURSIVE StoreFrom(_, _, _, _)
StoreFrom(course_id, grades_data, i, st) ==
    IF i > Len(grades_data) THEN st
    ELSE LET grade_entry == grades_data[i]
         IN IF grade_entry.student_id = None \/ grade_entry.grade = None
            THEN [st EXCEPT !.raised = TRUE]
            ELSE LET event == Event(Len(st.published) + 1, "grade_submitted",
                                    [student_id |-> grade_entry.student_id,
                                     course_id |-> course_id,
                                     grade |-> grade_entry.grade])
                 IN StoreFrom(course_id, grades_data, i + 1,
                       [grades |-> StoreGrade(st.grades, course_id,
                                              grade_entry.student_id, grade_entry.grade),
                        queue |-> Publish(st.queue, event),
                        published |-> Append(st.published, event),
                        raised |-> FALSE])

\* POST /submit_grades; payload.is_list is isinstance(grades_data, list)
SubmitGrades(course_id, payload) ==
    LET request == [course_id |-> course_id, grades |-> payload]
    IN IF course_id \notin FacultyCourses
       THEN /\ last' = Response("submit_grades", request, 404, [error |-> "Course not found"])
            /\ UNCHANGED <<grades, event_queue, published>>
       ELSE IF ~payload.is_list
       THEN /\ last' = Response("submit_grades", request, 400,
                                [error |-> "Invalid grades payload"])
            /\ UNCHANGED <<grades, event_queue, published>>
       ELSE LET grades_data == payload.items
                processed == Process(SelectScheme(course_id), grades_data)
            IN IF ~processed.valid
               THEN /\ last' = Response("submit_grades", request, 400,
                                 [success |-> FALSE, error |-> "Invalid grade entries",
                                  details |-> processed])
                    /\ UNCHANGED <<grades, event_queue, published>>
               ELSE LET g0 == IF course_id \notin DOMAIN grades
                              THEN grades @@ (course_id :> EmptyMap)
                              ELSE grades
                        st == StoreFrom(course_id, grades_data, 1,
                                 [grades |-> g0, queue |-> event_queue,
                                  published |-> published, raised |-> FALSE])
                    IN /\ grades' = st.grades
                       /\ event_queue' = st.queue
                       /\ published' = st.published
                       /\ last' = IF st.raised
                                  THEN Response("submit_grades", request, 500,
                                                [error |-> "Internal Server Error"])
                                  ELSE Response("submit_grades", request, 200,
                                         [success |-> TRUE,
                                          message |-> <<"Grades submitted for " \o
                                                        ToString(Len(grades_data)) \o
                                                        " students in " \o course_id>>,
                                          processing |-> processed])

\* The grade batches requests are drawn from: entries whose fields are strings
\* or absent.
GradeStudentIds == {"STU001", "STU004", None}
GradeValues == {"A", "Z", None}
GradeEntries == {GradeEntry(s, g) : s \in GradeStudentIds, g \in GradeValues}

RECURSIVE SeqsUpTo(_, _)
SeqsUpTo(S, n) ==
    IF n = 0 THEN {<<>>}
    ELSE LET shorter == SeqsUpTo(S, n - 1)
         IN shorter \cup {Append(q, x) : q \in shorter, x \in S}

ListPayload(items) == [is_list |-> TRUE, items |-> items]
NotAList == [is_list |-> FALSE, items |-> <<>>]

GradePayloads == {ListPayload(b) : b \in SeqsUpTo(GradeEntries, MaxBatch)} \cup {NotAList}
GradeCourseIds == {"CS101", "PF100", None}

SubmitGradesRequest(limit) ==
    \E course_id \in GradeCourseIds :
       \E payload \in GradePayloads :
          /\ SubmitGrades(course_id, payload)
          /\ Len(published') <= limit
          /\ UNCHANGED <<studentVars, rosters, subscribers, dispatcher, dlog, pipelineVars, restVars>>

OnStudentEnrolledUnchecked(r, event) ==
    LET cid == event.data.course_id
        sid == event.data.student_id
    IN IF ~IsStr(cid) \/ ~IsStr(sid) THEN r
       ELSE IF cid \in DOMAIN r
       THEN [r EXCEPT ![cid] = Append(@, sid)]
       ELSE r

OnStudentEnrolledInverted(r, event) ==
    LET cid == event.data.course_id
        sid == event.data.student_id
    IN IF cid \in DOMAIN r /\ sid \in SeqToSet(r[cid])
       THEN [r EXCEPT ![cid] = Append(@, sid)]
       ELSE r

\* FacultyService._on_student_enrolled
OnStudentEnrolled(r, event) ==
    LET cid == event.data.course_id
        sid == event.data.student_id
    IN IF ~IsStr(cid) \/ ~IsStr(sid) THEN r
       ELSE IF cid \in DOMAIN r /\ sid \notin SeqToSet(r[cid])
       THEN [r EXCEPT ![cid] = Append(@, sid)]
       ELSE r

OnStudentDroppedOtherRoster(r, event) ==
    LET cid == event.data.student_id
        sid == event.data.course_id
    IN IF cid \in DOMAIN r /\ sid \in SeqToSet(r[cid])
       THEN [r EXCEPT ![cid] = Remove(@, sid)]
       ELSE r

\* FacultyService._on_student_dropped
OnStudentDropped(r, event) ==
    LET cid == event.data.course_id
        sid == event.data.student_id
    IN IF ~IsStr(cid) \/ ~IsStr(sid) THEN r
       ELSE IF cid \in DOMAIN r /\ sid \in SeqToSet(r[cid])
       THEN [r EXCEPT ![cid] = Remove(@, sid)]
       ELSE r

----------------------------------------------------------------------------
(* Admin service: POST /config *)

\* AdminNotificationFactory.create (the timestamp is left out)
NotificationCreate(notification_type, data) ==
    IF notification_type = "system_config_updated"
    THEN [type |-> notification_type, message |-> data.message,
          recipients |-> <<"students", "faculty", "administrators">>]
    ELSE IF notification_type = "course_created"
    THEN [type |-> notification_type,
          message |-> "Course " \o data.course_id \o " created",
          recipients |-> <<"administrators", "faculty">>]
    ELSE [type |-> notification_type, message |-> data.message]

\* POST /config; message is None when the body has no "message"
UpdateSystemConfig(msg) ==
    LET message == IF msg = None THEN "System maintenance scheduled" ELSE msg
        notification == NotificationCreate("system_config_updated", [message |-> message])
    IN /\ Emit("system_config_updated",
               [message |-> message, notification |-> notification])
       /\ last' = Response("config", [message |-> msg], 200,
                           [success |-> TRUE, message |-> message])

ConfigRequest(limit) ==
    \E msg \in {None, "Testing config"} :
       /\ UpdateSystemConfig(msg)
       /\ Len(published') <= limit
       /\ UNCHANGED <<studentVars, facultyVars, subscribers, dispatcher, dlog, pipelineVars, restVars>>

FullAtOne(queue) == Len(queue) >= 1

\* A JSON value for capacity: an int, or something int() refuses.
IntPayload(n) == [is_int |-> TRUE, value |-> n]
NotAnInt == [is_int |-> FALSE, value |-> 0]

\* str(p) of a prerequisite id (the ids drawn here are strings already)
Str(p) == p

CourseExistsNever(courses, course_id) == FALSE

\* if course_id_str in self.courses
CourseExists(courses, course_id) == course_id \in DOMAIN courses

\* self.courses[course_id_str] = new_course: a dict assignment, which replaces
\* the value of a key the dict already has.
SetCourse(courses, course_id, new_course) ==
    [c \in DOMAIN courses \cup {course_id} |->
        IF c = course_id THEN new_course ELSE courses[c]]

\* POST /course
CreateCourse(course_id, name, instructor, capacity, prerequisites) ==
    LET request == [course_id |-> course_id, name |-> name, instructor |-> instructor,
                    capacity |-> capacity, prerequisites |-> prerequisites]
        frame == UNCHANGED <<admin_courses, event_queue, published>>
    IN IF ~IsStr(course_id)
       THEN /\ last' = Response("course", request, 400,
                                [error |-> "Invalid payload: course_id"])
            /\ frame
       ELSE IF ~IsStr(name)
       THEN /\ last' = Response("course", request, 400, [error |-> "Invalid payload: name"])
            /\ frame
       ELSE IF ~IsStr(instructor)
       THEN /\ last' = Response("course", request, 400,
                                [error |-> "Invalid payload: instructor"])
            /\ frame
       ELSE LET cap == IF capacity.is_int THEN capacity.value ELSE 20
                prereqs == IF prerequisites.is_list
                           THEN [i \in 1..Len(prerequisites.items) |->
                                    Str(prerequisites.items[i])]
                           ELSE <<>>
            IN IF CourseExists(admin_courses, course_id)
               THEN /\ last' = Response("course", request, 400,
                                        [error |-> "Course already exists"])
                    /\ frame
               ELSE LET new_course == Course(course_id, name, instructor, cap, 0, prereqs)
                    IN /\ admin_courses' = SetCourse(admin_courses, course_id, new_course)
                       /\ Emit("course_created",
                               [course_id |-> course_id, name |-> name,
                                instructor |-> instructor,
                                notification |->
                                    NotificationCreate("course_created",
                                                       [course_id |-> course_id])])
                       /\ last' = IF DtoRaises("admin", CourseEntity(new_course))
                                  THEN Response("course", request, 500,
                                                [error |-> "Internal Server Error"])
                                  ELSE Response("course", request, 200,
                                         [success |-> TRUE,
                                          course |-> CreateResponseDto("admin",
                                                        CourseEntity(new_course), now)])

CreateCourseRequest(limit, course_ids) ==
    \E course_id \in course_ids, name \in {"Advanced Software Engineering", NotAString},
       instructor \in {"Dr. Wilson", NotAString},
       capacity \in {IntPayload(15), IntPayload(0), NotAnInt},
       prerequisites \in {ListPayload(<<"CS201", "CS301">>), NotAList} :
       /\ CreateCourse(course_id, name, instructor, capacity, prerequisites)
       /\ Len(published') <= limit
       /\ UNCHANGED <<studentVars, facultyVars, subscribers, dispatcher, dlog,
                      pipelineVars, gradingVars, dtoVars, producers, singletonVars>>

\* queue.Queue() has no maxsize: put never finds the queue full.
Full(queue) == FALSE

\* POST /config in request thread t, up to the Event it builds (the handler has
\* not called publish yet).
ConfigBegin(t, msg) ==
    /\ producers[t].pc = "idle"
    /\ LET message == IF msg = None THEN "System maintenance scheduled" ELSE msg
           notification == NotificationCreate("system_config_updated", [message |-> message])
       IN producers' = [producers EXCEPT ![t] =
                           [pc |-> "built", msg |-> msg, message |-> message,
                            data |-> [message |-> message, notification |-> notification]]]
    /\ UNCHANGED <<studentVars, facultyVars, busVars, last, pipelineVars, adminVars,
                   gradingVars, dtoVars, singletonVars>>

\* self.event_bus.publish(event) in request thread t: queue.put, which waits
\* only while the queue is full.
ConfigPublish(t) ==
    /\ producers[t].pc = "built"
    /\ ~Full(event_queue)
    /\ Emit("system_config_updated", producers[t].data)
    /\ producers' = [producers EXCEPT ![t].pc = "published"]
    /\ UNCHANGED <<studentVars, facultyVars, subscribers, dispatcher, dlog, last,
                   pipelineVars, adminVars, gradingVars, dtoVars, singletonVars>>

\* return jsonify(...) in request thread t
ConfigReturn(t) ==
    /\ producers[t].pc = "published"
    /\ last' = Response("config", [message |-> producers[t].msg], 200,
                        [success |-> TRUE, message |-> producers[t].message])
    /\ producers' = [producers EXCEPT ![t] = IdleProducer]
    /\ UNCHANGED <<studentVars, facultyVars, busVars, pipelineVars, adminVars,
                   gradingVars, dtoVars, singletonVars>>

\* The events built by request threads and not published yet.
Built == {t \in Threads : producers[t].pc = "built"}

----------------------------------------------------------------------------
(* The dispatcher thread: EventBus._start_event_processor.process_events *)

\* callback(event): the rosters after the callback ran. The NotificationService
\* callbacks only print.
RunCallback(callback, event, r) ==
    CASE callback = "faculty_on_student_enrolled" -> OnStudentEnrolled(r, event)
      [] callback = "faculty_on_student_dropped" -> OnStudentDropped(r, event)
      [] OTHER -> r

HasCallbackFirstOnly(d) ==
    /\ d.event.event_type \in DOMAIN subscribers
    /\ d.idx <= 1
    /\ d.idx <= Len(subscribers[d.event.event_type])

\* for callback in self.subscribers[event.event_type]: is there a next callback?
HasCallback(d) ==
    /\ d.event.event_type \in DOMAIN subscribers
    /\ d.idx <= Len(subscribers[d.event.event_type])

AfterCallbackUncaught(raised) == IF raised THEN "dead" ELSE "dispatch"

\* try: callback(event) / except Exception: print(...): where the thread goes on
AfterCallback(raised) == "dispatch"

\* event = self.event_queue.get(timeout=1), an event being there
DispGet ==
    /\ dispatcher.pc = "get"
    /\ event_queue # <<>>
    /\ LET got == QueueGet(event_queue)
       IN /\ event_queue' = got.rest
          /\ dispatcher' = [pc |-> "dispatch", event |-> got.event, idx |-> 1]
    /\ UNCHANGED <<studentVars, facultyVars, subscribers, published, dlog, last,
                   pipelineVars, restVars>>

\* get times out on an empty queue: queue.Empty is caught and the loop continues
DispTimeout ==
    /\ dispatcher.pc = "get"
    /\ event_queue = <<>>
    /\ UNCHANGED vars

\* One callback of the event is called; it may raise (its print fails) after it
\* has done its work.
DispCall ==
    /\ dispatcher.pc = "dispatch"
    /\ HasCallback(dispatcher)
    /\ \E raised \in BOOLEAN :
          LET event == dispatcher.event
              callback == subscribers[event.event_type][dispatcher.idx]
          IN /\ rosters' = RunCallback(callback, event, rosters)
             /\ dlog' = Append(dlog, [id |-> event.id, event_type |-> event.event_type,
                                      callback |-> callback, raised |-> raised])
             /\ dispatcher' = [dispatcher EXCEPT !.pc = AfterCallback(raised),
                                                 !.idx = @ + 1]
    /\ UNCHANGED <<studentVars, grades, subscribers, event_queue, published, last,
                   pipelineVars, restVars>>

\* self.event_queue.task_done(), after the last callback
DispTaskDone ==
    /\ dispatcher.pc = "dispatch"
    /\ ~HasCallback(dispatcher)
    /\ dispatcher' = [pc |-> "get", event |-> NoEvent, idx |-> 0]
    /\ UNCHANGED <<studentVars, facultyVars, subscribers, event_queue, published, dlog,
                   last, pipelineVars, restVars>>

DispatcherStep == DispGet \/ DispTimeout \/ DispCall \/ DispTaskDone

----------------------------------------------------------------------------
(* A ValidationContext on its own *)

PipelineCourses ==
    {NoCourse,
     StudentSeedCourses["CS101"],
     [StudentSeedCourses["CS101"] EXCEPT !.enrolled = 30],
     StudentSeedCourses["CS301"]}
PipelineCompleted == {<<>>, <<"CS101">>, <<"CS101", "CS201">>}
PipelineCurrent == {<<>>, <<"CS201", "CS101", "CS101", "CS101", "CS101">>}

\* validator.add_strategy(strategy)
PipelineAdd ==
    /\ Len(strategies) < MaxStrategies
    /\ \E strategy \in Strategies : strategies' = AddStrategy(strategies, strategy)
    /\ UNCHANGED <<studentVars, facultyVars, busVars, last, validation_out, restVars>>

\* validator.validate_all(student_id, course_id, context)
PipelineValidate ==
    /\ \E course \in PipelineCourses, completed \in PipelineCompleted,
          current \in PipelineCurrent :
          LET context == Context(course, completed, current)
          IN validation_out' =
                 [called |-> TRUE, strategies |-> strategies, context |-> context,
                  results |-> ValidateAll(strategies, "STU001", "CS101", context)]
    /\ UNCHANGED <<studentVars, facultyVars, busVars, last, strategies, restVars>>

----------------------------------------------------------------------------
(* Specifications *)

\* Student requests and configuration updates beside the dispatcher.
Next ==
    \/ EnrollRequest(MaxEvents, BusStudentIds, BusCourseIds)
    \/ DropRequest(MaxEvents, BusStudentIds, BusCourseIds)
    \/ ConfigRequest(MaxEvents)
    \/ DispGet
    \/ DispTimeout
    \/ DispCall
    \/ DispTaskDone

Spec == Init /\ [][Next]_vars

\* The dispatcher thread is scheduled again and again.
FairSpec == Spec /\ WF_vars(DispatcherStep)

\* The Student service's requests alone.
StudentNext ==
    \/ EnrollRequest(MaxStudentEvents, StudentIds, CourseIds)
    \/ DropRequest(MaxStudentEvents, StudentIds, CourseIds)

StudentSpec == Init /\ [][StudentNext]_vars

\* The Faculty service's grade submissions alone.
GradeNext == SubmitGradesRequest(MaxGradeEvents)

GradeSpec == Init /\ [][GradeNext]_vars

\* One ValidationContext: strategies are added, validate_all is called.
PipelineNext == PipelineAdd \/ PipelineValidate

PipelineSpec == Init /\ [][PipelineNext]_vars

----------------------------------------------------------------------------
(* EventBus.__new__ called by several threads *)

\* An attribute of the instance that is not set yet.
NoAttribute == [unset |-> TRUE]

\* The class before any EventBus() call: _instance is None (0), _lock is free.
NoBus == [instance |-> 0, lock |-> 0, created |-> 0, started |-> 0]

SecondCheckSkipped(instance) == TRUE

\* if cls._instance is None, inside the lock
SecondCheck(instance) == instance = 0

CtorFrame ==
    UNCHANGED <<studentVars, facultyVars, published, dlog, last, pipelineVars,
                adminVars, gradingVars, dtoVars, producers>>

\* EventBus(): if cls._instance is None, outside the lock
CtorCheck1(t) ==
    /\ ctor[t].pc = "idle"
    /\ Len(ctor[t].rets) < MaxCalls
    /\ ctor' = [ctor EXCEPT ![t].pc = IF bus.instance = 0 THEN "lock" ELSE "return"]
    /\ UNCHANGED <<bus, subscribers, event_queue, dispatcher>>
    /\ CtorFrame

\* with cls._lock: the lock is taken when it is free
CtorAcquire(t) ==
    /\ ctor[t].pc = "lock"
    /\ bus.lock = 0
    /\ bus' = [bus EXCEPT !.lock = t]
    /\ ctor' = [ctor EXCEPT ![t].pc = "check2"]
    /\ UNCHANGED <<subscribers, event_queue, dispatcher>>
    /\ CtorFrame

CtorCheck2(t) ==
    /\ ctor[t].pc = "check2"
    /\ ctor' = [ctor EXCEPT ![t].pc = IF SecondCheck(bus.instance) THEN "new" ELSE "release"]
    /\ UNCHANGED <<bus, subscribers, event_queue, dispatcher>>
    /\ CtorFrame

\* cls._instance = super().__new__(cls): instances are numbered as created
CtorNew(t) ==
    /\ ctor[t].pc = "new"
    /\ bus' = [bus EXCEPT !.instance = bus.created + 1, !.created = @ + 1]
    /\ ctor' = [ctor EXCEPT ![t].pc = "attrs"]
    /\ UNCHANGED <<subscribers, event_queue, dispatcher>>
    /\ CtorFrame

\* cls._instance.subscribers = {}; cls._instance.event_queue = queue.Queue()
CtorAttrs(t) ==
    /\ ctor[t].pc = "attrs"
    /\ subscribers' = EmptyMap
    /\ event_queue' = <<>>
    /\ ctor' = [ctor EXCEPT ![t].pc = "start"]
    /\ UNCHANGED <<bus, dispatcher>>
    /\ CtorFrame

\* cls._instance._start_event_processor(): a dispatcher thread is started
CtorStart(t) ==
    /\ ctor[t].pc = "start"
    /\ bus' = [bus EXCEPT !.started = @ + 1]
    /\ dispatcher' = [pc |-> "get", event |-> NoEvent, idx |-> 0]
    /\ ctor' = [ctor EXCEPT ![t].pc = "release"]
    /\ UNCHANGED <<subscribers, event_queue>>
    /\ CtorFrame

\* the end of the with block
CtorRelease(t) ==
    /\ ctor[t].pc = "release"
    /\ bus' = [bus EXCEPT !.lock = 0]
    /\ ctor' = [ctor EXCEPT ![t].pc = "return"]
    /\ UNCHANGED <<subscribers, event_queue, dispatcher>>
    /\ CtorFrame

\* return cls._instance
CtorReturn(t) ==
    /\ ctor[t].pc = "return"
    /\ ctor' = [ctor EXCEPT ![t] = [pc |-> "idle", rets |-> Append(@.rets, bus.instance)]]
    /\ UNCHANGED <<bus, subscribers, event_queue, dispatcher>>
    /\ CtorFrame

\* The process before its first EventBus() call: no instance, no dispatcher.
SingletonInit ==
    /\ student_courses = StudentSeedCourses
    /\ student_data = StudentSeedData
    /\ applied = <<>>
    /\ rosters = FacultySeedRosters
    /\ grades = EmptyMap
    /\ subscribers = NoAttribute
    /\ event_queue = NoAttribute
    /\ dispatcher = [pc |-> "unstarted", event |-> NoEvent, idx |-> 0]
    /\ published = <<>>
    /\ dlog = <<>>
    /\ last = NoRequest
    /\ strategies = <<>>
    /\ validation_out = NoValidation
    /\ admin_courses = AdminSeedCourses
    /\ processing_out = NoProcessing
    /\ now = 0
    /\ dto_calls = <<>>
    /\ producers = [t \in Threads |-> IdleProducer]
    /\ bus = NoBus
    /\ ctor = [t \in CtorThreads |-> IdleCtor]

SingletonNext ==
    \E t \in CtorThreads :
       \/ CtorCheck1(t)
       \/ CtorAcquire(t)
       \/ CtorCheck2(t)
       \/ CtorNew(t)
       \/ CtorAttrs(t)
       \/ CtorStart(t)
       \/ CtorRelease(t)
       \/ CtorReturn(t)

SingletonSpec == SingletonInit /\ [][SingletonNext]_vars

\* The roles and the entities the response factories are called with.
Roles == {"student", "faculty", "admin"}
DtoEntities ==
    {CourseEntity(StudentSeedCourses["CS201"]),
     ListEntity(<<StudentSeedCourses["CS101"], StudentSeedCourses["CS201"]>>),
     RosterEntity("CS101", <<[student_id |-> "STU001", name |-> "Student STU001"]>>),
     ReportEntity("enrollment_summary", <<>>, [total_courses |-> 3]),
     OtherEntity}

\* Time passes.
Tick ==
    /\ now < MaxClock
    /\ now' = now + 1
    /\ UNCHANGED <<studentVars, facultyVars, busVars, last, pipelineVars, adminVars,
                   gradingVars, dto_calls, producers, singletonVars>>

\* self.dto_factory.create_response_dto(data) of a role's factory
ShapeResponse ==
    /\ Len(dto_calls) < MaxDtoCalls
    /\ \E role \in Roles, data \in DtoEntities :
          dto_calls' = Append(dto_calls,
                              [role |-> role, data |-> data, at |-> now,
                               payload |-> CreateResponseDto(role, data, now)])
    /\ UNCHANGED <<studentVars, facultyVars, busVars, last, pipelineVars, adminVars,
                   gradingVars, now, producers, singletonVars>>

DtoNext == Tick \/ ShapeResponse

DtoSpec == Init /\ [][DtoNext]_vars

\* The grade schemes on their own.
GradingNext == ProcessBatch

GradingSpec == Init /\ [][GradingNext]_vars

\* The requests of the four mutation endpoints, well-formed and not, one after
\* the other; the events stay in the queue.
RequestStudentIds == {"STU001", "STU002", NotAString}
RequestCourseIds == {"CS101", "CS401", NotAString}
RequestGradeCourseIds == {"CS101", "CS301", None}
RequestGradePayloads ==
    {NotAList,
     ListPayload(<<GradeEntry("STU001", "A")>>),
     ListPayload(<<GradeEntry("STU001", None)>>),
     ListPayload(<<GradeEntry("STU001", "A"), GradeEntry(None, "B")>>)}

SubmitGradesOf(limit, course_ids, payloads) ==
    \E course_id \in course_ids, payload \in payloads :
       /\ SubmitGrades(course_id, payload)
       /\ Len(published') <= limit
       /\ UNCHANGED <<studentVars, rosters, subscribers, dispatcher, dlog, pipelineVars,
                      restVars>>

RequestNext ==
    \/ EnrollRequest(MaxRequestEvents, RequestStudentIds, RequestCourseIds)
    \/ DropRequest(MaxRequestEvents, RequestStudentIds, RequestCourseIds)
    \/ SubmitGradesOf(MaxRequestEvents, RequestGradeCourseIds, RequestGradePayloads)
    \/ CreateCourseRequest(MaxRequestEvents, RequestCourseIds)

RequestSpec == Init /\ [][RequestNext]_vars

\* Request threads inside POST /config at the same time, beside the dispatcher.
ConcurrentNext ==
    \/ \E t \in Threads, msg \in {None, "Testing config"} :
          ConfigBegin(t, msg) /\ Len(published) + Cardinality(Built) < MaxPublishes
    \/ \E t \in Threads : ConfigPublish(t)
    \/ \E t \in Threads : ConfigReturn(t)
    \/ DispGet
    \/ DispTimeout
    \/ DispCall
    \/ DispTaskDone

ConcurrentSpec == Init /\ [][ConcurrentNext]_vars

----------------------------------------------------------------------------
(* The Student service under Flask's threaded server: app.run serves each
   request in a thread of its own, and the handlers of POST /enroll and
   POST /drop take no lock. A request is two steps: the reads that decide
   (the validation of POST /enroll, the membership test of POST /drop), and
   the update with the publish. Another request can run between the two. *)

\* What enroll_student has decided when its validation returns.
EnrollPasses(student_id, course_id) ==
    /\ IsStr(student_id) /\ IsStr(course_id)
    /\ course_id \in DOMAIN student_courses
    /\ LET course == student_courses[course_id]
       IN AllValid(ValidateAll(EnrollStrategies(course), student_id, course_id,
                               EnrollContext(course, student_id)))

\* POST /enroll up to the verdict: a refusal is answered at once, a pass
\* leaves the thread in front of the update with the verdicts it computed.
EnrollBegin(t, student_id, course_id) ==
    /\ producers[t].pc = "idle"
    /\ IF EnrollPasses(student_id, course_id)
       THEN LET course == student_courses[course_id]
            IN /\ producers' =
                     [producers EXCEPT ![t] =
                         [pc |-> "validated", student_id |-> student_id,
                          course_id |-> course_id,
                          validation_results |->
                              ValidateAll(EnrollStrategies(course), student_id,
                                          course_id,
                                          EnrollContext(course, student_id))]]
               /\ UNCHANGED <<studentVars, event_queue, published, last>>
       ELSE /\ Enroll(student_id, course_id)
            /\ UNCHANGED producers
    /\ UNCHANGED <<facultyVars, subscribers, dispatcher, dlog, pipelineVars,
                   adminVars, gradingVars, dtoVars, singletonVars>>

\* POST /enroll from the seat count on: the update, the publish, the answer.
EnrollCommit(t) ==
    /\ producers[t].pc = "validated"
    /\ LET student_id == producers[t].student_id
           course_id == producers[t].course_id
       IN /\ student_courses' =
                 [student_courses EXCEPT ![course_id].enrolled = @ + 1]
          /\ student_data' = EnrollRecord(student_data, student_id, course_id)
          /\ applied' = Append(applied, Applied("enroll", student_id, course_id))
          /\ Emit("student_enrolled",
                  [student_id |-> student_id, course_id |-> course_id,
                   advisor_email |->
                       "advisor_" \o student_id \o "@university.edu"])
          /\ last' = Response("enroll",
                       [student_id |-> student_id, course_id |-> course_id], 200,
                       [success |-> TRUE,
                        message |-> <<"Successfully enrolled in " \o
                                      student_courses[course_id].name>>,
                        validation_results |-> producers[t].validation_results])
    /\ producers' = [producers EXCEPT ![t] = IdleProducer]
    /\ UNCHANGED <<facultyVars, subscribers, dispatcher, dlog, pipelineVars,
                   adminVars, gradingVars, dtoVars, singletonVars>>

\* The test of drop_course: the student has a record that lists the course.
DropPasses(student_id, course_id) ==
    /\ IsStr(student_id) /\ IsStr(course_id)
    /\ course_id \in DOMAIN student_courses
    /\ HoldsCourse(student_data, student_id, course_id)

\* POST /drop up to its test.
DropBegin(t, student_id, course_id) ==
    /\ producers[t].pc = "idle"
    /\ IF DropPasses(student_id, course_id)
       THEN /\ producers' =
                  [producers EXCEPT ![t] =
                      [pc |-> "tested", student_id |-> student_id,
                       course_id |-> course_id]]
            /\ UNCHANGED <<studentVars, event_queue, published, last>>
       ELSE /\ Drop(student_id, course_id)
            /\ UNCHANGED producers
    /\ UNCHANGED <<facultyVars, subscribers, dispatcher, dlog, pipelineVars,
                   adminVars, gradingVars, dtoVars, singletonVars>>

\* POST /drop from the seat count on. list.remove raises ValueError when
\* another request has removed the course meanwhile: the seat count is
\* already lowered, nothing is published and Flask answers 500.
DropCommit(t) ==
    /\ producers[t].pc = "tested"
    /\ LET student_id == producers[t].student_id
           course_id == producers[t].course_id
           request == [student_id |-> student_id, course_id |-> course_id]
       IN /\ student_courses' =
                 [student_courses EXCEPT ![course_id].enrolled = @ - 1]
          /\ IF course_id \in SeqToSet(student_data[student_id].current_courses)
             THEN /\ student_data' =
                        [student_data EXCEPT ![student_id].current_courses =
                                                 Remove(@, course_id)]
                  /\ applied' = Append(applied, Applied("drop", student_id, course_id))
                  /\ Emit("student_dropped",
                          [student_id |-> student_id, course_id |-> course_id])
                  /\ last' = Response("drop", request, 200,
                               [success |-> TRUE,
                                message |-> <<"Successfully dropped " \o
                                              student_courses[course_id].name>>])
             ELSE /\ last' = Response("drop", request, 500,
                               [error |-> "Internal Server Error"])
                  /\ UNCHANGED <<student_data, applied, event_queue, published>>
    /\ producers' = [producers EXCEPT ![t] = IdleProducer]
    /\ UNCHANGED <<facultyVars, subscribers, dispatcher, dlog, pipelineVars,
                   adminVars, gradingVars, dtoVars, singletonVars>>

RaceStudentIds == {"STU001", "STU004"}
RaceCourseIds == {"CS101"}

\* Requests that have passed their reads and not yet published.
Deciding == {t \in Threads : producers[t].pc \in {"validated", "tested"}}

RaceNext ==
    \/ \E t \in Threads, student_id \in RaceStudentIds, course_id \in RaceCourseIds :
          /\ EnrollBegin(t, student_id, course_id)
          /\ Len(published) + Cardinality(Deciding') <= MaxRaceEvents
    \/ \E t \in Threads : EnrollCommit(t)
    \/ \E t \in Threads, student_id \in RaceStudentIds, course_id \in RaceCourseIds :
          /\ DropBegin(t, student_id, course_id)
          /\ Len(published) + Cardinality(Deciding') <= MaxRaceEvents
    \/ \E t \in Threads : DropCommit(t)

RaceSpec == Init /\ [][RaceNext]_vars

----------------------------------------------------------------------------
(* The Faculty rosters between their writer and their readers. The roster
   handlers run on the dispatcher thread, GET /roster runs on a request thread
   of the Faculty service, and neither takes a lock. A handler is two steps
   here, its membership test and its update of the list; the request is two
   steps too, its lookup and the reading of the list. *)

RosterCallbacks == {"faculty_on_student_enrolled", "faculty_on_student_dropped"}

\* The if of a roster handler: does it go on to change the list?
RosterTest(callback, event, r) ==
    LET cid == event.data.course_id
        sid == event.data.student_id
    IN /\ IsStr(cid) /\ IsStr(sid)
       /\ cid \in DOMAIN r
       /\ IF callback = "faculty_on_student_enrolled"
          THEN sid \notin SeqToSet(r[cid])
          ELSE sid \in SeqToSet(r[cid])

\* The callback the dispatcher is about to call, or is inside of.
CurrentCallback == subscribers[dispatcher.event.event_type][dispatcher.idx]

\* A roster handler is called and its test passes: it stands before its update.
DispCheck ==
    /\ dispatcher.pc = "dispatch"
    /\ HasCallback(dispatcher)
    /\ CurrentCallback \in RosterCallbacks
    /\ RosterTest(CurrentCallback, dispatcher.event, rosters)
    /\ dispatcher' = [dispatcher EXCEPT !.pc = "checked"]
    /\ UNCHANGED <<studentVars, facultyVars, subscribers, event_queue, published, dlog,
                   last, pipelineVars, restVars>>

\* The update of the handler, its print, and its return to the dispatcher.
DispUpdate ==
    /\ dispatcher.pc = "checked"
    /\ \E raised \in BOOLEAN :
          LET event == dispatcher.event
          IN /\ rosters' = RunCallback(CurrentCallback, event, rosters)
             /\ dlog' = Append(dlog, [id |-> event.id, event_type |-> event.event_type,
                                      callback |-> CurrentCallback, raised |-> raised])
             /\ dispatcher' = [dispatcher EXCEPT !.pc = AfterCallback(raised),
                                                 !.idx = @ + 1]
    /\ UNCHANGED <<studentVars, grades, subscribers, event_queue, published, last,
                   pipelineVars, restVars>>

\* Every other call of a callback: a print-only handler, or a roster handler
\* whose test fails.
DispCallWhole ==
    /\ dispatcher.pc = "dispatch"
    /\ HasCallback(dispatcher)
    /\ ~(/\ CurrentCallback \in RosterCallbacks
         /\ RosterTest(CurrentCallback, dispatcher.event, rosters))
    /\ DispCall

\* The students list get_roster builds from a roster.
RECURSIVE RosterStudents(_)
RosterStudents(roster) ==
    IF roster = <<>> THEN <<>>
    ELSE <<[student_id |-> Head(roster), name |-> "Student " \o Head(roster)]>>
         \o RosterStudents(Tail(roster))

\* GET /roster/<course_id> up to its lookup: 404, or in front of the list.
GetRosterBegin(t, course_id) ==
    /\ producers[t].pc = "idle"
    /\ IF course_id \notin DOMAIN rosters
       THEN /\ last' = Response("roster", [course_id |-> course_id], 404,
                                [error |-> "Course not found"])
            /\ UNCHANGED producers
       ELSE /\ producers' = [producers EXCEPT ![t] =
                                [pc |-> "reading", course_id |-> course_id]]
            /\ UNCHANGED last
    /\ UNCHANGED <<studentVars, facultyVars, busVars, pipelineVars, adminVars,
                   gradingVars, dtoVars, singletonVars>>

\* GET /roster/<course_id>: the list is read and the response shaped.
GetRosterEnd(t) ==
    /\ producers[t].pc = "reading"
    /\ LET course_id == producers[t].course_id
       IN last' = Response("roster", [course_id |-> course_id], 200,
                           FacultyDto(RosterEntity(course_id,
                                                   RosterStudents(rosters[course_id]))))
    /\ producers' = [producers EXCEPT ![t] = IdleProducer]
    /\ UNCHANGED <<studentVars, facultyVars, busVars, pipelineVars, adminVars,
                   gradingVars, dtoVars, singletonVars>>

RosterReadIds == {"CS101", "CS301"}

\* Roster requests answered so far are not counted by the state; the model
\* takes them while events are still to be published or delivered.
RosterNext ==
    \/ EnrollRequest(MaxRosterEvents, {"STU004"}, {"CS101"})
    \/ DropRequest(MaxRosterEvents, {"STU004"}, {"CS101"})
    \/ \E t \in Threads, course_id \in RosterReadIds : GetRosterBegin(t, course_id)
    \/ \E t \in Threads : GetRosterEnd(t)
    \/ DispGet
    \/ DispTimeout
    \/ DispCheck
    \/ DispUpdate
    \/ DispCallWhole
    \/ DispTaskDone

RosterSpec == Init /\ [][RosterNext]_vars

----------------------------------------------------------------------------
(* The Student service's requests with the publish apart from the update.
   After its reads a handler changes the service's state and then publishes
   the event; both are plain statements of a request thread, with no lock
   around them, so another request can do its whole work between the two. *)

\* POST /enroll: the seat count, the record, the two appends.
EnrollUpdate(t) ==
    /\ producers[t].pc = "validated"
    /\ LET student_id == producers[t].student_id
           course_id == producers[t].course_id
       IN /\ student_courses' =
                 [student_courses EXCEPT ![course_id].enrolled = @ + 1]
          /\ student_data' = EnrollRecord(student_data, student_id, course_id)
          /\ applied' = Append(applied, Applied("enroll", student_id, course_id))
    /\ producers' = [producers EXCEPT ![t].pc = "enrolled"]
    /\ UNCHANGED <<facultyVars, busVars, last, pipelineVars, adminVars, gradingVars,
                   dtoVars, singletonVars>>

\* POST /enroll: the event is published and the request answered.
EnrollPublish(t) ==
    /\ producers[t].pc = "enrolled"
    /\ LET student_id == producers[t].student_id
           course_id == producers[t].course_id
       IN /\ Emit("student_enrolled",
                  [student_id |-> student_id, course_id |-> course_id,
                   advisor_email |->
                       "advisor_" \o student_id \o "@university.edu"])
          /\ last' = Response("enroll",
                       [student_id |-> student_id, course_id |-> course_id], 200,
                       [success |-> TRUE,
                        message |-> <<"Successfully enrolled in " \o
                                      student_courses[course_id].name>>,
                        validation_results |-> producers[t].validation_results])
    /\ producers' = [producers EXCEPT ![t] = IdleProducer]
    /\ UNCHANGED <<studentVars, facultyVars, subscribers, dispatcher, dlog,
                   pipelineVars, adminVars, gradingVars, dtoVars, singletonVars>>

\* POST /drop: the seat count and the removal. list.remove raises ValueError
\* when the course is no longer in the list: the request ends with 500.
DropUpdate(t) ==
    /\ producers[t].pc = "tested"
    /\ LET student_id == producers[t].student_id
           course_id == producers[t].course_id
       IN /\ student_courses' =
                 [student_courses EXCEPT ![course_id].enrolled = @ - 1]
          /\ IF course_id \in SeqToSet(student_data[student_id].current_courses)
             THEN /\ student_data' =
                        [student_data EXCEPT ![student_id].current_courses =
                                                 Remove(@, course_id)]
                  /\ applied' = Append(applied, Applied("drop", student_id, course_id))
                  /\ producers' = [producers EXCEPT ![t].pc = "dropped"]
                  /\ UNCHANGED last
             ELSE /\ last' = Response("drop",
                               [student_id |-> student_id, course_id |-> course_id],
                               500, [error |-> "Internal Server Error"])
                  /\ producers' = [producers EXCEPT ![t] = IdleProducer]
                  /\ UNCHANGED <<student_data, applied>>
    /\ UNCHANGED <<facultyVars, busVars, pipelineVars, adminVars, gradingVars,
                   dtoVars, singletonVars>>

\* POST /drop: the event is published and the request answered.
DropPublish(t) ==
    /\ producers[t].pc = "dropped"
    /\ LET student_id == producers[t].student_id
           course_id == producers[t].course_id
       IN /\ Emit("student_dropped",
                  [student_id |-> student_id, course_id |-> course_id])
          /\ last' = Response("drop",
                       [student_id |-> student_id, course_id |-> course_id], 200,
                       [success |-> TRUE,
                        message |-> <<"Successfully dropped " \o
                                      student_courses[course_id].name>>])
    /\ producers' = [producers EXCEPT ![t] = IdleProducer]
    /\ UNCHANGED <<studentVars, facultyVars, subscribers, dispatcher, dlog,
                   pipelineVars, adminVars, gradingVars, dtoVars, singletonVars>>

\* Requests between their reads and their answer.
InFlight == {t \in Threads : producers[t].pc # "idle"}

\* Two request threads of the Student service for one student and one course,
\* beside the dispatcher.
OrderNext ==
    \/ \E t \in Threads :
          /\ EnrollBegin(t, "STU004", "CS101")
          /\ Len(published) + Cardinality(InFlight') <= MaxOrderEvents
    \/ \E t \in Threads : EnrollUpdate(t)
    \/ \E t \in Threads : EnrollPublish(t)
    \/ \E t \in Threads :
          /\ DropBegin(t, "STU004", "CS101")
          /\ Len(published) + Cardinality(InFlight') <= MaxOrderEvents
    \/ \E t \in Threads : DropUpdate(t)
    \/ \E t \in Threads : DropPublish(t)
    \/ DispGet
    \/ DispTimeout
    \/ DispCall
    \/ DispTaskDone

OrderSpec == Init /\ [][OrderNext]_vars

----------------------------------------------------------------------------
(* The roster handlers under any enrollment and drop events. EventBus.publish
   takes an event from whoever calls it; here the events are drawn from a small
   set, with students who are on a roster and who are not, a course without a
   roster, and a course id that is no string. *)

FedStudentIds == {"STU001", "STU004"}
FedCourseIds == {"CS101", "CS301", NotAString}

\* bus.publish(Event(event_type, {"student_id": ..., "course_id": ...}))
FeedEvent(event_type, student_id, course_id) ==
    /\ Len(published) < MaxFedEvents
    /\ Emit(event_type, [student_id |-> student_id, course_id |-> course_id])
    /\ UNCHANGED <<studentVars, facultyVars, subscribers, dispatcher, dlog, last,
                   pipelineVars, restVars>>

FeedNext ==
    \/ \E event_type \in {"student_enrolled", "student_dropped"},
          student_id \in FedStudentIds, course_id \in FedCourseIds :
          FeedEvent(event_type, student_id, course_id)
    \/ DispGet
    \/ DispTimeout
    \/ DispCall
    \/ DispTaskDone

FeedSpec == Init /\ [][FeedNext]_vars

----------------------------------------------------------------------------
(* Properties *)

\* How often x occurs in a list.
RECURSIVE Count(_, _)
Count(list, x) ==
    IF list = <<>> THEN 0
    ELSE (IF Head(list) = x THEN 1 ELSE 0) + Count(Tail(list), x)

\* The seats of a course held in the students' current_courses lists.
RECURSIVE SeatsHeld(_, _, _)
SeatsHeld(data, ids, course_id) ==
    IF ids = {} THEN 0
    ELSE LET s == CHOOSE x \in ids : TRUE
         IN Count(data[s].current_courses, course_id)
            + SeatsHeld(data, ids \ {s}, course_id)

HasMessage(response, message) ==
    /\ "message" \in DOMAIN response.body
    /\ response.body.message = message

(* C1: in the Student service every course has 0 <= enrolled <= capacity, after
   any sequence of POST /enroll and POST /drop requests from the seeded data.
   The count never goes below the seats the students' current_courses hold,
   which is why no drop can take it below 0. *)
C1_EnrolledWithinCapacity ==
    \A c \in DOMAIN student_courses :
       /\ 0 <= student_courses[c].enrolled
       /\ student_courses[c].enrolled <= student_courses[c].capacity
       /\ SeatsHeld(student_data, DOMAIN student_data, c) <= student_courses[c].enrolled

\* CS101 has been filled to its capacity, an enrollment in it has been refused for
\* that, and a drop has freed a seat of CS201.
C1_Witness ==
    /\ student_courses["CS101"].enrolled = student_courses["CS101"].capacity
    /\ student_courses["CS201"].enrolled < StudentSeedCourses["CS201"].enrolled
    /\ last.op = "enroll"
    /\ last.request.course_id = "CS101"
    /\ last.status = 400
    /\ HasMessage(last, <<"Course is at full capacity">>)

\* The ids a "Missing prerequisites" message lists: the pieces between the
\* heading and the separators.
MessageIds(message) == [i \in 1..(Len(message) \div 2) |-> message[2 * i]]
MessageSeparators(message) == {message[2 * i + 1] : i \in 1..((Len(message) - 1) \div 2)}

\* ids is the list of the prerequisites that are not completed: all of them, no
\* others, each once, in the order of the prerequisites.
IsMissingList(ids, prerequisites, completed) ==
    /\ SeqToSet(ids) = SeqToSet(prerequisites) \ SeqToSet(completed)
    /\ \A i, j \in 1..Len(ids) :
          i < j => \E k, l \in 1..Len(prerequisites) :
                      k < l /\ prerequisites[k] = ids[i] /\ prerequisites[l] = ids[j]

(* C4: a POST /enroll for a course with a prerequisite the student has not
   completed fails with 400 and success false, its message is the heading
   followed by exactly the missing prerequisite ids, in the course's order,
   joined by ", ", and the course's enrolled count stays as it was. *)
C4_UnmetPrerequisitesRejected ==
    [][\A s \in StudentIds, c \in CourseIds :
          ( /\ Enroll(s, c)
            /\ IsStr(s) /\ IsStr(c)
            /\ c \in DOMAIN student_courses
            /\ SeqToSet(student_courses[c].prerequisites)
                  \ SeqToSet(StudentField(student_data, s, "completed_courses")) # {} )
          => /\ last'.status = 400
             /\ last'.body.success = FALSE
             /\ Len(last'.body.message) >= 2
             /\ last'.body.message[1] = "Missing prerequisites: "
             /\ MessageSeparators(last'.body.message) \subseteq {", "}
             /\ Len(last'.body.message) % 2 = 0
             /\ IsMissingList(MessageIds(last'.body.message),
                              student_courses[c].prerequisites,
                              StudentField(student_data, s, "completed_courses"))
             /\ student_courses'[c].enrolled = student_courses[c].enrolled
             /\ student_courses' = student_courses
      ]_vars

\* STU001, who completed CS101, has been refused CS301 (which requires CS101 and
\* CS201): the message lists CS201 alone, and CS301 still has its 15 enrolled.
C4_Witness ==
    /\ last.op = "enroll"
    /\ last.request = [student_id |-> "STU001", course_id |-> "CS301"]
    /\ last.status = 400
    /\ HasMessage(last, <<"Missing prerequisites: ", "CS201">>)
    /\ student_courses["CS301"].enrolled = 15

(* C5: validate_all runs the validators in the order they were added and stops
   at the first failure: the trace holds the results of a prefix of the
   validators, in order; every result before the last is valid; the trace is
   shorter than the list only when its last result is invalid; when the
   capacity check fails, it is the last result (no schedule-conflict result
   follows it). *)
C5_ValidateAllStopsAtFirstFailure ==
    validation_out.called =>
       LET list == validation_out.strategies
           trace == validation_out.results
           context == validation_out.context
       IN /\ Len(trace) <= Len(list)
          /\ \A i \in 1..Len(trace) :
                trace[i] = Validate(list[i], "STU001", "CS101", context)
          /\ \A i \in 1..(Len(trace) - 1) : trace[i].valid
          /\ Len(trace) < Len(list) => (Len(trace) >= 1 /\ ~trace[Len(trace)].valid)
          /\ \A i \in 1..Len(trace) :
                (list[i] = "Capacity" /\ ~trace[i].valid) => i = Len(trace)

\* Capacity then schedule conflict were run on a full course for a student with
\* five courses: the trace is the capacity failure alone.
C5_Witness ==
    /\ validation_out.called
    /\ validation_out.strategies = <<"Capacity", "ScheduleConflict">>
    /\ Len(validation_out.context.student_current_courses) = 5
    /\ validation_out.results = <<Result(FALSE, <<"Course is at full capacity">>)>>

\* The legal grades of the scheme a course id selects.
LegalGrades(course_id) == IF StartsWithPF(course_id) THEN PassFailValid ELSE LetterValid

(* C6: a POST /submit_grades for a course of the Faculty service whose batch
   holds an entry with a grade outside the selected scheme's legal set is
   answered 400, stores no grade of the batch (the grades map is unchanged) and
   publishes no event. *)
C6_IllegalGradeRejectsBatch ==
    [][LET c == last'.request.course_id
           p == last'.request.grades
       IN ( /\ last'.op = "submit_grades"
            /\ SubmitGrades(c, p)
            /\ c \in FacultyCourses
            /\ p.is_list
            /\ \E i \in 1..Len(p.items) : p.items[i].grade \notin LegalGrades(c) )
          => /\ last'.status = 400
             /\ grades' = grades
             /\ event_queue' = event_queue
             /\ published' = published
      ]_vars

\* The batch (STU001: A, STU004: Z) for CS101 has been refused: Z alone is
\* reported invalid, and the A before it has not been stored.
C6_Witness ==
    /\ last.op = "submit_grades"
    /\ last.request.course_id = "CS101"
    /\ last.request.grades = ListPayload(<<GradeEntry("STU001", "A"), GradeEntry("STU004", "Z")>>)
    /\ last.status = 400
    /\ last.body.details.invalid_entries = <<GradeEntry("STU004", "Z")>>
    /\ grades = EmptyMap
    /\ event_queue = <<>>

\* The grades stored, as (course, student, grade) triples.
StoredGrades(g) == UNION {{<<c, s, g[c][s]>> : s \in DOMAIN g[c]} : c \in DOMAIN g}

\* Every entry of the batch is stored (the last entry of a student stands) and
\* its event was appended to the queue, in batch order.
BatchStored(course_id, items, g, queue_before, queue_after) ==
    /\ Len(queue_after) = Len(queue_before) + Len(items)
    /\ \A i \in 1..Len(items) :
          /\ items[i].student_id # None
          /\ course_id \in DOMAIN g
          /\ items[i].student_id \in DOMAIN g[course_id]
          /\ \E j \in i..Len(items) :
                /\ items[j].student_id = items[i].student_id
                /\ g[course_id][items[i].student_id] = items[j].grade
          /\ LET event == queue_after[Len(queue_before) + i]
             IN /\ event.event_type = "grade_submitted"
                /\ event.data = [student_id |-> items[i].student_id,
                                 course_id |-> course_id, grade |-> items[i].grade]

(* C7: grade batch processing is all-or-nothing for every POST /submit_grades,
   whatever the shape of its entries: when the request has finished, either
   every entry is stored and its event published, or no entry is stored and no
   event published. *)
C7_BatchAllOrNothing ==
    [][LET c == last'.request.course_id
           p == last'.request.grades
       IN ( last'.op = "submit_grades" /\ SubmitGrades(c, p) )
          => \/ /\ StoredGrades(grades') = StoredGrades(grades)
                /\ event_queue' = event_queue
             \/ /\ p.is_list
                /\ BatchStored(c, p.items, grades', event_queue, event_queue')
      ]_vars

----------------------------------------------------------------------------
(* Properties of the bus *)

QueueIds == {event_queue[i].id : i \in 1..Len(event_queue)}

\* The dispatcher is delivering the event of this id.
InDispatch(id) == dispatcher.pc # "get" /\ dispatcher.event.id = id

\* The callbacks invoked for the event, in the order of their invocation.
CallsOf(id) == SelectSeq(dlog, LAMBDA call : call.id = id)
CallbacksOf(id) == [i \in 1..Len(CallsOf(id)) |-> CallsOf(id)[i].callback]

\* The callbacks registered for an event type, in registration order.
Registered(event_type) ==
    IF event_type \in DOMAIN subscribers THEN subscribers[event_type] ELSE <<>>

\* Every callback registered for the event's exact type has been invoked for it,
\* once, in registration order.
FullyDelivered(id) ==
    /\ id <= Len(published)
    /\ CallbacksOf(id) = Registered(published[id].event_type)

(* C8: a callback that raises is caught. The dispatcher thread stays alive;
   every event it has finished with, and the one it is delivering, got each
   callback registered for its type invoked in order, whether or not earlier
   callbacks raised; an event still queued got none; and a callback's failure
   changes nothing in the response the publisher got. *)
C8_HandlerFailureIsolated ==
    /\ [](/\ dispatcher.pc \in {"get", "dispatch"}
          /\ \A id \in 1..Len(published) :
                IF id \in QueueIds THEN CallbacksOf(id) = <<>>
                ELSE IF InDispatch(id)
                THEN CallbacksOf(id) =
                        SubSeq(Registered(published[id].event_type), 1, dispatcher.idx - 1)
                ELSE FullyDelivered(id))
    /\ [][DispCall => last' = last]_vars

\* The notification callback of an enrollment event raised, the Faculty callback
\* registered after it was invoked for the same event all the same, and an event
\* published later has been dispatched too.
C8_Witness ==
    \E i \in 1..Len(dlog) : \E j \in 1..Len(dlog) : \E k \in 1..Len(dlog) :
       /\ dlog[i].raised
       /\ dlog[i].callback = "notify_enrollment"
       /\ j = i + 1
       /\ dlog[j].id = dlog[i].id
       /\ dlog[j].callback = "faculty_on_student_enrolled"
       /\ k > j
       /\ dlog[k].id > dlog[i].id
       /\ last.status = 200

(* C9: the events of one type reach each callback of that type in publish
   order: of two invocations of the same callback, the earlier one is for the
   event published earlier; and a callback is only invoked for events of the
   type it is registered for. *)
C9_FifoWithinType ==
    /\ \A i, j \in 1..Len(dlog) :
          (i < j /\ dlog[i].callback = dlog[j].callback) => dlog[i].id < dlog[j].id
    /\ \A i \in 1..Len(dlog) :
          /\ dlog[i].id <= Len(published)
          /\ dlog[i].event_type = published[dlog[i].id].event_type
          /\ dlog[i].callback \in SeqToSet(Registered(dlog[i].event_type))

\* Two student_enrolled events with an event of another type published between
\* them: the Faculty callback got the first, then the second.
C9_Witness ==
    \E i, j \in 1..Len(dlog) :
       /\ i < j
       /\ dlog[i].callback = "faculty_on_student_enrolled"
       /\ dlog[j].callback = "faculty_on_student_enrolled"
       /\ dlog[i].id = 1
       /\ dlog[j].id = 3
       /\ published[2].event_type # "student_enrolled"

(* C10: under fairness of the dispatcher thread every published event is
   eventually taken from the queue and delivered to every callback registered
   for its exact type, also when callbacks of earlier events raised. *)
C10_EveryEventDelivered ==
    \A k \in 1..MaxEvents : (Len(published) >= k) ~> FullyDelivered(k)

\* The second event has been delivered to all its callbacks although every
\* callback of the first event raised.
C10_Witness ==
    /\ Len(published) >= 2
    /\ FullyDelivered(1)
    /\ FullyDelivered(2)
    /\ \A i \in 1..Len(dlog) : dlog[i].id = 1 => dlog[i].raised

\* The enroll and drop events published for a student and a course.
PairEvents(s, c) ==
    SelectSeq(published,
              LAMBDA e : /\ e.event_type \in {"student_enrolled", "student_dropped"}
                         /\ e.data.student_id = s
                         /\ e.data.course_id = c)

\* The last successful enroll or drop of the student for the course was of this
\* type.
LastIs(s, c, event_type) ==
    /\ PairEvents(s, c) # <<>>
    /\ PairEvents(s, c)[Len(PairEvents(s, c))].event_type = event_type

LastPairId(s, c) == PairEvents(s, c)[Len(PairEvents(s, c))].id

HandledBy(id, callback) ==
    \E i \in 1..Len(dlog) : dlog[i].id = id /\ dlog[i].callback = callback

InRoster(s, c) == c \in DOMAIN rosters /\ s \in SeqToSet(rosters[c])

(* C2: after a successful POST /enroll of a student in a course, unless the
   student is later dropped from it, the Faculty callback eventually handles
   the enrollment's event and the roster of the course then holds the student
   id (the dispatcher thread being scheduled fairly). *)
C2_EnrollReachesRoster ==
    \A s \in BusStudentIds : \A c \in BusCourseIds :
       LastIs(s, c, "student_enrolled")
       ~> ( \/ ~LastIs(s, c, "student_enrolled")
            \/ /\ HandledBy(LastPairId(s, c), "faculty_on_student_enrolled")
               /\ InRoster(s, c) )

\* STU004, who was not on the seeded CS101 roster, enrolled in CS101 and is now
\* on it, the event handled.
C2_Witness ==
    /\ LastIs("STU004", "CS101", "student_enrolled")
    /\ HandledBy(LastPairId("STU004", "CS101"), "faculty_on_student_enrolled")
    /\ InRoster("STU004", "CS101")
    /\ ~("STU004" \in SeqToSet(FacultySeedRosters["CS101"]))

(* C3: after a successful POST /drop of a student from a course, unless the
   student later enrolls in it again, the Faculty callback eventually handles
   the drop's event and the roster of the course then does not hold the student
   id (the dispatcher thread being scheduled fairly). *)
C3_DropLeavesRoster ==
    \A s \in BusStudentIds : \A c \in BusCourseIds :
       LastIs(s, c, "student_dropped")
       ~> ( \/ ~LastIs(s, c, "student_dropped")
            \/ /\ HandledBy(LastPairId(s, c), "faculty_on_student_dropped")
               /\ ~InRoster(s, c) )

\* STU001, on the seeded CS201 roster, dropped CS201 and is no longer on it, the
\* event handled.
C3_Witness ==
    /\ LastIs("STU001", "CS201", "student_dropped")
    /\ HandledBy(LastPairId("STU001", "CS201"), "faculty_on_student_dropped")
    /\ ~InRoster("STU001", "CS201")
    /\ "STU001" \in SeqToSet(FacultySeedRosters["CS201"])

----------------------------------------------------------------------------
(* Properties of the bus under concurrent publishers *)

\* How often the event of this id is in the queue.
TimesQueued(id) == Cardinality({i \in 1..Len(event_queue) : event_queue[i].id = id})

\* How often a callback was invoked for the event of this id.
TimesCalled(id, callback) ==
    Cardinality({i \in 1..Len(dlog) : dlog[i].id = id /\ dlog[i].callback = callback})

(* C11: with request threads inside POST /config at the same time, every
   published event is dequeued exactly once. It sits in the queue once, as it
   was published, and has reached no callback; or it has left the queue and is
   the event in dispatch or was delivered to all its callbacks (it is not
   lost); and no callback is ever invoked twice for it (it is not dispatched
   again). *)
C11_DequeuedExactlyOnce ==
    /\ \A i \in 1..Len(event_queue) :
          /\ event_queue[i].id \in 1..Len(published)
          /\ event_queue[i] = published[event_queue[i].id]
    /\ \A id \in 1..Len(published) :
          /\ TimesQueued(id) <= 1
          /\ TimesQueued(id) = 1 => ~InDispatch(id) /\ CallsOf(id) = <<>>
          /\ TimesQueued(id) = 0 => InDispatch(id) \/ FullyDelivered(id)
          /\ \A callback \in SeqToSet(Registered(published[id].event_type)) :
                TimesCalled(id, callback) <= 1

\* Two request threads are both between their publish call and their return, and
\* the two events they published have each been delivered once.
C11_Witness ==
    /\ \A t \in Threads : producers[t].pc = "published"
    /\ Len(published) = 2
    /\ event_queue = <<>>
    /\ dispatcher.pc = "get"
    /\ \A id \in 1..2 : TimesCalled(id, "notify_system_config") = 1

(* C12: publish never blocks the publisher. In every state a request thread
   that has built its event can take its publish step, whatever the length of
   the queue and wherever the dispatcher is. *)
C12_PublishNeverBlocks ==
    \A t \in Threads : producers[t].pc = "built" => ENABLED ConfigPublish(t)

\* A thread has just published the event at the end of a queue of two while the
\* dispatcher is inside the delivery of an earlier event, its callback not yet
\* returned.
C12_Witness ==
    /\ \E t \in Threads : producers[t].pc = "published"
    /\ dispatcher.pc = "dispatch"
    /\ HasCallback(dispatcher)
    /\ Len(event_queue) >= 2
    /\ event_queue[Len(event_queue)].id = Len(published)

----------------------------------------------------------------------------
(* Properties of EventBus.__new__ *)

\* No thread is inside EventBus().
NoCallRunning == \A t \in CtorThreads : ctor[t].pc = "idle"

(* C13: whatever the interleaving of the threads that call EventBus(), at most
   one instance is ever created and at most one dispatcher thread started, the
   dispatcher only by the call that created the instance; every call returns
   that one instance; and once calls were made and none is running, exactly
   one instance exists and exactly one dispatcher was started. *)
C13_OneBusOneDispatcher ==
    /\ bus.created <= 1
    /\ bus.started <= bus.created
    /\ bus.instance = bus.created
    /\ \A t \in CtorThreads : \A i \in 1..Len(ctor[t].rets) : ctor[t].rets[i] = 1
    /\ (NoCallRunning /\ \E t \in CtorThreads : ctor[t].rets # <<>>)
          => bus.created = 1 /\ bus.started = 1

\* A thread that saw no instance at its first test holds the lock and is at the
\* second test, the instance having been created by another thread, which has
\* returned it.
C13_Witness ==
    \E t, u \in CtorThreads :
       /\ t # u
       /\ ctor[t].pc = "check2"
       /\ bus.instance = 1
       /\ bus.started = 1
       /\ ctor[u].rets # <<>>

----------------------------------------------------------------------------
(* Properties of the four mutation endpoints *)

\* A required field of the request is missing or has the wrong type.
Malformed(r) ==
    CASE r.op \in {"enroll", "drop"} ->
            ~IsStr(r.request.student_id) \/ ~IsStr(r.request.course_id)
      [] r.op = "submit_grades" ->
            \/ r.request.course_id = None
            \/ ~r.request.grades.is_list
            \/ \E i \in 1..Len(r.request.grades.items) :
                  \/ r.request.grades.items[i].student_id = None
                  \/ r.request.grades.items[i].grade = None
      [] r.op = "course" ->
            \/ ~IsStr(r.request.course_id)
            \/ ~IsStr(r.request.name)
            \/ ~IsStr(r.request.instructor)
      [] OTHER -> FALSE

(* C14: a request to POST /enroll, POST /drop, POST /submit_grades or
   POST /course in which a required field is missing or has the wrong type is
   answered 400, changes no state of any service and publishes no event. *)
C14_PayloadErrorsRejected ==
    [][Malformed(last')
       => /\ last'.status = 400
          /\ UNCHANGED <<studentVars, facultyVars, adminVars, event_queue, published>>
      ]_vars

\* The course ids each service knows: those it was constructed with (Student and
\* Faculty never add one).
KnownToStudent == {"CS101", "CS201", "CS301"}
KnownToFaculty == {"CS101", "CS201"}

\* A well-formed request that names a course the receiving service does not know.
NamesUnknownCourse(r) ==
    CASE r.op \in {"enroll", "drop"} ->
            /\ IsStr(r.request.student_id)
            /\ IsStr(r.request.course_id)
            /\ r.request.course_id \notin KnownToStudent
      [] r.op = "submit_grades" ->
            /\ ~Malformed(r)
            /\ r.request.course_id \notin KnownToFaculty
      [] OTHER -> FALSE

(* C15: a well-formed POST /enroll, POST /drop or POST /submit_grades that names
   a course id the receiving service does not know is answered 404, and the
   courses, the student records, the grades, the rosters and the bus queue are
   as before. *)
C15_UnknownCourseNotFound ==
    [][NamesUnknownCourse(last')
       => /\ last'.status = 404
          /\ last'.body = [error |-> "Course not found"]
          /\ UNCHANGED <<studentVars, facultyVars, event_queue, published>>
      ]_vars

\* A well-formed batch for CS301, which Student and Admin know and Faculty does
\* not, has been answered 404 and no grade is stored.
C15_Witness ==
    /\ last.op = "submit_grades"
    /\ last.request.course_id = "CS301"
    /\ last.request.grades = ListPayload(<<GradeEntry("STU001", "A")>>)
    /\ last.status = 404
    /\ grades = EmptyMap
    /\ event_queue = <<>>

\* Admin has created CS401 with the prerequisites CS201 and CS301.
CS401Created ==
    /\ "CS401" \in DOMAIN admin_courses
    /\ admin_courses["CS401"].prerequisites = <<"CS201", "CS301">>

(* C17: once Admin POST /course has created CS401 with the prerequisites CS201
   and CS301, a POST /enroll of STU002, who has no record, in CS401 is answered
   400 with a message that names both CS201 and CS301. *)
C17_DemoEnrollListsBothMissing ==
    [][( /\ CS401Created
         /\ "STU002" \notin DOMAIN student_data
         /\ last'.op = "enroll"
         /\ last'.request = [student_id |-> "STU002", course_id |-> "CS401"]
         /\ Enroll("STU002", "CS401") )
       => /\ last'.status = 400
          /\ "message" \in DOMAIN last'.body
          /\ {"CS201", "CS301"} \subseteq SeqToSet(last'.body.message)
      ]_vars

----------------------------------------------------------------------------
(* Properties of the validators inside POST /enroll *)

\* The validators a request for this course is to run, in their order.
Assembled(course) ==
    (IF course.prerequisites # <<>> THEN <<"Prerequisite">> ELSE <<>>)
       \o <<"Capacity", "ScheduleConflict">>

\* What each of them answers for the student, each asked on its own.
Verdicts(s, c) ==
    LET course == student_courses[c]
        context == [course |-> course,
                    student_completed_courses |->
                        IF s \in DOMAIN student_data
                        THEN student_data[s].completed_courses ELSE <<>>,
                    student_current_courses |->
                        IF s \in DOMAIN student_data
                        THEN student_data[s].current_courses ELSE <<>>]
    IN [i \in 1..Len(Assembled(course)) |-> Validate(Assembled(course)[i], s, c, context)]

\* The step is a POST /enroll of a student id in a course the service knows.
EnrollOfKnownCourse ==
    /\ last'.op = "enroll"
    /\ IsStr(last'.request.student_id)
    /\ last'.request.course_id \in DOMAIN student_courses
    /\ Enroll(last'.request.student_id, last'.request.course_id)

(* C16: a POST /enroll that a validator rejects (prerequisite, capacity or
   schedule conflict) is answered 400 and changes nothing: the courses with
   their enrolled counts, the student records (none is created, none gets a
   current course or a history entry) and the bus queue are as before. *)
C16_RejectedEnrollChangesNothing ==
    [][( /\ EnrollOfKnownCourse
         /\ \E i \in DOMAIN Verdicts(last'.request.student_id, last'.request.course_id) :
               ~Verdicts(last'.request.student_id, last'.request.course_id)[i].valid )
       => /\ last'.status = 400
          /\ last'.body.success = FALSE
          /\ student_courses' = student_courses
          /\ student_data' = student_data
          /\ DOMAIN student_data' = DOMAIN student_data
          /\ event_queue' = event_queue
          /\ published' = published
      ]_vars

\* STU001 holds five courses and has been refused a sixth for the schedule
\* conflict: the five are still five, and no record exists for STU004.
C16_Witness ==
    /\ last.op = "enroll"
    /\ last.request.student_id = "STU001"
    /\ last.status = 400
    /\ HasMessage(last, <<"Schedule conflict: Maximum 5 courses allowed">>)
    /\ Len(student_data["STU001"].current_courses) = 5
    /\ "STU004" \notin DOMAIN student_data

(* C18: POST /enroll succeeds if and only if every validator assembled for the
   request (prerequisite only when the course declares prerequisites, then
   capacity, then schedule conflict) answers valid; when it fails, the message
   returned is the message of the first invalid answer in that order. *)
C18_EnrollIffAllValid ==
    [][EnrollOfKnownCourse
       => LET verdicts == Verdicts(last'.request.student_id, last'.request.course_id)
              invalid == {i \in DOMAIN verdicts : ~verdicts[i].valid}
          IN /\ last'.status \in {200, 400}
             /\ (last'.status = 200) <=> (invalid = {})
             /\ last'.body.success <=> (invalid = {})
             /\ invalid # {} =>
                   \E i \in invalid :
                      /\ \A j \in invalid : i <= j
                      /\ last'.body.message = verdicts[i].message
      ]_vars

\* CS101 is full and STU001 holds five courses: capacity and schedule conflict
\* would both refuse, and the message is that of capacity, which comes first.
C18_Witness ==
    /\ last.op = "enroll"
    /\ last.request = [student_id |-> "STU001", course_id |-> "CS101"]
    /\ last.status = 400
    /\ HasMessage(last, <<"Course is at full capacity">>)
    /\ Len(student_data["STU001"].current_courses) >= 5
    /\ student_courses["CS101"].enrolled >= student_courses["CS101"].capacity

----------------------------------------------------------------------------
(* Properties of the grade schemes *)

\* list is made of entries of batch, in the order they have in batch.
InBatchOrder(list, batch) ==
    \A i, j \in 1..Len(list) :
       i < j => \E k, l \in 1..Len(batch) :
                   k < l /\ batch[k] = list[i] /\ batch[l] = list[j]

(* C19: for every grade batch and course id, the scheme is pass/fail with the
   legal grades P and F when the id starts with "PF" and letter with the legal
   grades A, A-, B+, B, B-, C+, C, C-, D, F otherwise; invalid_entries holds
   exactly the entries of the batch whose grade is outside the legal set (each
   as often as the batch does, in batch order, and no other), and valid is true
   if and only if invalid_entries is empty. *)
C19_InvalidEntriesExact ==
    processing_out.called =>
       LET batch == processing_out.grades_data
           result == processing_out.result
           pass_fail == processing_out.course_id \in {"PF100", "PF"}
           legal == IF pass_fail THEN {"P", "F"}
                    ELSE {"A", "A-", "B+", "B", "B-", "C+", "C", "C-", "D", "F"}
       IN /\ result.scheme = IF pass_fail THEN "pass_fail" ELSE "letter"
          /\ \A e \in SeqToSet(batch) \cup SeqToSet(result.invalid_entries) :
                Count(result.invalid_entries, e) =
                   IF e.grade \in legal THEN 0 ELSE Count(batch, e)
          /\ InBatchOrder(result.invalid_entries, batch)
          /\ result.valid <=> (result.invalid_entries = <<>>)

\* For PF100 the batch (P, A) has been processed: A, a legal letter grade, is the
\* one invalid entry of the pass/fail scheme.
C19_Witness ==
    /\ processing_out.called
    /\ processing_out.course_id = "PF100"
    /\ processing_out.grades_data = <<GradeEntry("STU001", "P"), GradeEntry("STU001", "A")>>
    /\ processing_out.result.invalid_entries = <<GradeEntry("STU001", "A")>>
    /\ ~processing_out.result.valid

----------------------------------------------------------------------------
(* Properties of the response factories *)

(* C20: response shaping is idempotent for every role factory and every entity
   (a course, a list of courses, a roster bundle, a report bundle): two
   create_response_dto calls of the same factory on the same entity, made at
   any two moments, return identical payloads. *)
C20_ShapingIdempotent ==
    \A i, j \in 1..Len(dto_calls) :
       (dto_calls[i].role = dto_calls[j].role /\ dto_calls[i].data = dto_calls[j].data)
          => dto_calls[i].payload = dto_calls[j].payload

----------------------------------------------------------------------------
\* C21: with the handlers of the Student service running in overlapping
\* request threads, every course still has a seat count between 0 and its
\* capacity.
C21_RaceKeepsSeatsWithinCapacity ==
    \A course_id \in DOMAIN student_courses :
        /\ 0 <= student_courses[course_id].enrolled
        /\ student_courses[course_id].enrolled <= student_courses[course_id].capacity

----------------------------------------------------------------------------
\* C22: a GET /roster request is never reading the roster of a course while a
\* roster handler stands between its membership test and its update of that
\* same roster.
C22_RosterReadExcludesUpdate ==
    \A t \in Threads :
        ~(/\ producers[t].pc = "reading"
          /\ dispatcher.pc = "checked"
          /\ dispatcher.event.data.course_id = producers[t].course_id)

----------------------------------------------------------------------------
\* No event is queued or being delivered (requests run to completion, so none
\* is in progress in any state).
Quiescent == event_queue = <<>> /\ dispatcher.pc = "get"

\* C23: whenever the event queue is empty and nothing is in progress, for every
\* course with a Faculty roster and every student who has enrolled in it or
\* dropped it through the Student service, the student id is in the roster
\* exactly when the course is among the student's current courses.
C23_RosterMatchesCurrentCourses ==
    Quiescent =>
        \A c \in DOMAIN rosters : \A s \in BusStudentIds :
            PairEvents(s, c) # <<>> =>
                (InRoster(s, c) <=>
                    c \in SeqToSet(StudentField(student_data, s, "current_courses")))

----------------------------------------------------------------------------
\* C24: the current courses of a student hold no course twice.
C24_CurrentCoursesHoldNoDuplicate ==
    \A s \in DOMAIN student_data : \A c \in DOMAIN student_courses :
        Count(student_data[s].current_courses, c) <= 1

----------------------------------------------------------------------------
\* C25: every course held by a service has a capacity above zero, the courses
\* added through POST /course included.
C25_CapacityAlwaysPositive ==
    /\ \A c \in DOMAIN student_courses : student_courses[c].capacity > 0
    /\ \A c \in DOMAIN admin_courses : admin_courses[c].capacity > 0

----------------------------------------------------------------------------
ScheduleConflictMessage == <<"Schedule conflict: Maximum 5 courses allowed">>

(* C26: with requests taken one after another, no student ever holds more than
   5 current courses, whatever the sequence of POST /enroll and POST /drop: an
   enrollment of a student who already holds 5 or more is refused and changes
   no record, and the schedule-conflict refusal is given only to a student who
   holds 5 or more. *)
C26_AtMostFiveCurrentCourses ==
    /\ [](\A s \in DOMAIN student_data : Len(student_data[s].current_courses) <= 5)
    /\ [][EnrollOfKnownCourse =>
            LET s == last'.request.student_id
                held == Len(StudentField(student_data, s, "current_courses"))
            IN /\ held >= 5 => (last'.status = 400 /\ UNCHANGED studentVars)
               /\ (last'.status = 400 /\ HasMessage(last', ScheduleConflictMessage))
                      => held >= 5]_vars

\* STU001 holds five courses again after a drop and a further enrollment, and
\* the next enrollment has just been refused for the schedule conflict.
C26_Witness ==
    /\ last.op = "enroll"
    /\ last.request.student_id = "STU001"
    /\ last.status = 400
    /\ HasMessage(last, ScheduleConflictMessage)
    /\ Len(student_data["STU001"].current_courses) = 5
    /\ \E i \in 1..Len(published) :
          /\ published[i].event_type = "student_dropped"
          /\ published[i].data.student_id = "STU001"

----------------------------------------------------------------------------
\* The subscribe calls made for an event type while the services are built,
\* in the order they are made: NotificationService first, FacultyService after.
SubscribedInOrder(event_type) ==
    CASE event_type = "student_enrolled" ->
            <<"notify_enrollment", "faculty_on_student_enrolled">>
      [] event_type = "student_dropped" ->
            <<"notify_drop", "faculty_on_student_dropped">>
      [] event_type = "grade_submitted" -> <<"notify_grade">>
      [] event_type = "course_created" -> <<"notify_course_created">>
      [] event_type = "system_config_updated" -> <<"notify_system_config">>
      [] OTHER -> <<>>

(* C27: the handlers of a dispatched event are invoked one after another in
   the order they were subscribed, none of another event in between: the
   invocations of one event are consecutive and follow the subscription order.
   For student_enrolled the notification handler comes first, so a roster is
   only changed for an event whose notification handler has already run. *)
C27_HandlersInSubscriptionOrder ==
    /\ [](/\ \A id \in 1..Len(published) :
                /\ Len(CallsOf(id)) <= Len(SubscribedInOrder(published[id].event_type))
                /\ CallbacksOf(id) =
                      SubSeq(SubscribedInOrder(published[id].event_type), 1,
                             Len(CallsOf(id)))
          /\ \A i, j, k \in 1..Len(dlog) :
                (i < k /\ k < j /\ dlog[i].id = dlog[j].id) => dlog[k].id = dlog[i].id
          /\ \A j \in 1..Len(dlog) :
                dlog[j].callback = "faculty_on_student_enrolled" =>
                    /\ j > 1
                    /\ dlog[j - 1].callback = "notify_enrollment"
                    /\ dlog[j - 1].id = dlog[j].id)
    /\ [][rosters' # rosters =>
             /\ dispatcher.pc = "dispatch"
             /\ HandledBy(dispatcher.event.id,
                          Head(SubscribedInOrder(dispatcher.event.event_type)))]_vars

\* The enrollment of STU004 in CS101 was notified, the notification handler
\* returned, and the Faculty handler called next for the same event has put
\* STU004 on the roster.
C27_Witness ==
    /\ InRoster("STU004", "CS101")
    /\ \E j \in 2..Len(dlog) :
          /\ dlog[j].callback = "faculty_on_student_enrolled"
          /\ dlog[j - 1].callback = "notify_enrollment"
          /\ ~dlog[j - 1].raised
          /\ dlog[j - 1].id = dlog[j].id
          /\ published[dlog[j].id].data.student_id = "STU004"

----------------------------------------------------------------------------
\* The step is a POST /course whose three text fields are strings.
CreateOfWellFormed ==
    /\ last'.op = "course"
    /\ IsStr(last'.request.course_id)
    /\ IsStr(last'.request.name)
    /\ IsStr(last'.request.instructor)

(* C28: a POST /course naming a course id the Admin service already holds is
   answered 400; the course map, and with it the existing course, is as
   before, and no event is put on the bus. A POST /course never changes or
   removes a course the map already held. *)
C28_DuplicateCourseRejected ==
    [][CreateOfWellFormed =>
         /\ last'.request.course_id \in DOMAIN admin_courses =>
               /\ last'.status = 400
               /\ last'.body = [error |-> "Course already exists"]
               /\ admin_courses' = admin_courses
               /\ UNCHANGED <<event_queue, published>>
         /\ \A c \in DOMAIN admin_courses :
               c \in DOMAIN admin_courses' /\ admin_courses'[c] = admin_courses[c]]_vars

\* CS401 was created with capacity 15 and two prerequisites; a second
\* POST /course for CS401, with capacity 0 and no prerequisites, has just been
\* refused, and the course and the one published event are as they were.
C28_Witness ==
    /\ last.op = "course"
    /\ last.request.course_id = "CS401"
    /\ last.request.capacity = IntPayload(0)
    /\ last.request.prerequisites = NotAList
    /\ last.status = 400
    /\ last.body = [error |-> "Course already exists"]
    /\ "CS401" \in DOMAIN admin_courses
    /\ admin_courses["CS401"].capacity = 15
    /\ admin_courses["CS401"].prerequisites = <<"CS201", "CS301">>
    /\ Len(published) = 1

----------------------------------------------------------------------------
\* The step is a POST /drop of a student id for a course the service knows.
DropOfKnownCourse ==
    /\ last'.op = "drop"
    /\ IsStr(last'.request.student_id)
    /\ last'.request.course_id \in DOMAIN student_courses
    /\ Drop(last'.request.student_id, last'.request.course_id)

(* C29: a POST /drop for a student who has no record, or whose current courses
   do not hold the course, is answered 400; the enrolled count of every
   course, every student record (none is created) and the bus queue are as
   before, and no student_dropped event is published. *)
C29_DropOfUnheldCourseChangesNothing ==
    [][DropOfKnownCourse =>
         LET s == last'.request.student_id
             c == last'.request.course_id
         IN (s \notin DOMAIN student_data
                \/ c \notin SeqToSet(student_data[s].current_courses))
            => /\ last'.status = 400
               /\ last'.body = [error |-> "Student not enrolled in this course"]
               /\ student_courses' = student_courses
               /\ student_data' = student_data
               /\ UNCHANGED <<event_queue, published>>]_vars

\* STU001 dropped CS201 and has just been refused a second drop of it: CS201
\* still counts 19 and one event is published. STU004, refused earlier or
\* never seen, has no record.
C29_Witness ==
    /\ last.op = "drop"
    /\ last.request = [student_id |-> "STU001", course_id |-> "CS201"]
    /\ last.status = 400
    /\ last.body = [error |-> "Student not enrolled in this course"]
    /\ student_courses["CS201"].enrolled = 19
    /\ student_data["STU001"].current_courses = <<>>
    /\ "STU004" \notin DOMAIN student_data
    /\ Len(published) = 1

----------------------------------------------------------------------------
\* C30: once an EventBus() call has returned to any thread, the instance it
\* returned has its subscribers map and its event queue.
C30_ReturnedBusIsInitialised ==
    (\E t \in CtorThreads : ctor[t].rets # <<>>) =>
        /\ subscribers # NoAttribute
        /\ event_queue # NoAttribute

----------------------------------------------------------------------------
\* The update an event reports.
UpdateOf(event) ==
    Applied(IF event.event_type = "student_enrolled" THEN "enroll" ELSE "drop",
            event.data.student_id, event.data.course_id)

(* C31: with an enrollment and a drop of the same student and course handled
   by concurrent request threads, the events enter the bus queue in the order
   in which the Student service applied the updates: once every request has
   answered, the events published are the updates applied, one for one and in
   the same order; and once the events are delivered as well, the student is
   on the course's roster exactly when the student holds the course. *)
C31_EventsInUpdateOrder ==
    InFlight = {} =>
        /\ Len(published) = Len(applied)
        /\ \A i \in 1..Len(published) : UpdateOf(published[i]) = applied[i]
        /\ Quiescent =>
              (InRoster("STU004", "CS101") <=>
                  "CS101" \in SeqToSet(StudentField(student_data, "STU004",
                                                    "current_courses")))

----------------------------------------------------------------------------
\* The dispatcher is about to call a roster handler.
RosterHandlerDue ==
    /\ dispatcher.pc = "dispatch"
    /\ HasCallback(dispatcher)
    /\ CurrentCallback \in RosterCallbacks

(* C32: no Faculty roster ever holds a student id twice, whatever enrollment
   and drop events arrive: a student_enrolled event for a student already on
   the roster changes no roster, and neither does an event for a course that
   has no roster. *)
C32_RosterHoldsNoDuplicate ==
    /\ [](\A c \in DOMAIN rosters : \A i, j \in 1..Len(rosters[c]) :
              rosters[c][i] = rosters[c][j] => i = j)
    /\ [][(RosterHandlerDue /\ DispCall) =>
            LET cid == dispatcher.event.data.course_id
                sid == dispatcher.event.data.student_id
            IN /\ cid \notin DOMAIN rosters => rosters' = rosters
               /\ (CurrentCallback = "faculty_on_student_enrolled" /\ InRoster(sid, cid))
                     => rosters' = rosters
               /\ DOMAIN rosters' = DOMAIN rosters]_vars

\* Two student_enrolled events for STU004 in CS101 and an event for CS301,
\* which has no roster, have all reached the Faculty handlers: the CS101
\* roster holds STU004 once.
C32_Witness ==
    /\ Count(rosters["CS101"], "STU004") = 1
    /\ \E i, j, k \in 1..Len(dlog) :
          /\ i < j
          /\ dlog[i].callback = "faculty_on_student_enrolled"
          /\ dlog[j].callback = "faculty_on_student_enrolled"
          /\ published[dlog[i].id].data = [student_id |-> "STU004", course_id |-> "CS101"]
          /\ published[dlog[j].id].data = [student_id |-> "STU004", course_id |-> "CS101"]
          /\ dlog[k].callback \in RosterCallbacks
          /\ published[dlog[k].id].data.course_id = "CS301"

============================================================================
